---- MODULE Spec2Model ----
(***************************************************************************)
(* DQDA collection framework and scoring orchestrator.                     *)
(*                                                                         *)
(*   agent/dqda/data_collectors/base_collector.py  BaseCollector           *)
(*   agent/dqda/dqda_agent.py                      DQDAAgent               *)
(*                                                                         *)
(* Four entry points are modelled, each with its own specification over    *)
(* its own group of variables (the other groups stay at their idle value): *)
(*   SpecRetry    BaseCollector._retry_with_backoff                        *)
(*   SpecCollect  BaseCollector.collect_data                               *)
(*   Spec         DQDAAgent.run_full_pipeline                              *)
(*   SpecScore    DQDAAgent._identify_weaknesses / _compute_investor_fit   *)
(* and two more specifications of run_full_pipeline:                       *)
(*   SpecLive     Spec with the fairness of the orchestrator's own steps   *)
(*   SpecRerun    two runs on the same five collector result lists         *)
(*                                                                         *)
(* Floats are modelled as integers: confidences, quality scores and the    *)
(* [0,1] heuristics in hundredths, delays in whole time units.             *)
(***************************************************************************)
EXTENDS Integers, Sequences, FiniteSets, TLC

VARIABLES
    \* ---- BaseCollector instance attributes (base_collector.py:111-115)
    max_retries, base_delay,
    \* ---- one activation of _retry_with_backoff
    rpc,            \* "idle" | "call" | "sleep" | "done"
    attempt,        \* the loop variable of `for attempt in range(max_retries)`
    last_exception, \* message of the last exception caught, or NoneVal
    retry_result,   \* what the coroutine returned, or NoneVal
    calls,          \* history: number of times func was awaited
    waits,          \* history: the delays passed to asyncio.sleep, in order
    \* ---- one BaseCollector instance and one activation of collect_data
    ctor_arg,         \* the rate_limit_delay argument of __init__ (or NoneVal)
    rate_limit_delay, \* self.rate_limit_delay
    source_kind,      \* what self._get_source_type() returns
    max_results,      \* the max_results argument
    fetch_permanent,  \* environment: _collect_raw_data raises on every call
    fetch_failures,   \* environment: number of coming calls that raise
    fetch_payload,    \* environment: the list a successful call returns
    cpc,              \* "idle" | "fetch" | "loop" | "sleep" | "done"
    raw_data,         \* local raw_data
    idx,              \* position of the `for item in raw_data` loop (1-based)
    normalized_data,  \* local normalized_data
    collect_result,   \* the list collect_data returned, or NoneVal
    propagated,       \* message of an exception that left collect_data, or NoneVal
    fetch_calls,      \* history: number of times _collect_raw_data was awaited
    fetch_errors,     \* history: the messages of the exceptions it raised
    events,           \* history: <<"normalize", i, ok>> and <<"sleep", d, 0>> in order
    \* ---- one activation of DQDAAgent.run_full_pipeline
    ppc,            \* "idle" | "start" | "gather" | "done" | "failed"
    task_state,     \* per key: "created" | "running" | "returned" | "raised" | "cancelled"
    task_value,     \* per key: the list the collector's collect_data returned
    collected,      \* local `collected`: per key [kind, items]
    report,         \* the report returned
    pipeline_error, \* the exception that left run_full_pipeline, or NoneVal
    clock,          \* what datetime.now(timezone.utc) reads
    round_dirs,     \* the directions round() took in the run, per call site
    prev_report,    \* the report of an earlier run on the same lists, or <<>>
    \* ---- the scoring functions called on their own
    sc_pc,          \* "idle" | "input" | "identified" | "given" | "done"
    sc_in,          \* the four sub-scores
    sc_empty,       \* the keys of `collected` holding no record
    sc_weaknesses,  \* the list of weaknesses
    sc_fit,         \* result of _compute_investor_fit
    \* ---- _compute_market_analysis and _compute_competition called on their own
    sg_pc,          \* "idle" | "input"
    sg_pitch,       \* the pitch_decks argument
    sg_wp,          \* the whitepapers argument
    sg_web,         \* the websites argument
    sg_market,      \* result of _compute_market_analysis, or <<>>
    sg_comp,        \* result of _compute_competition, or <<>>
    \* ---- the fan-out and fan-in of run_full_pipeline, with completion order
    ga_pc,          \* "idle" | "start" | "gather" | "scoring"
    ga_state,       \* per key: "created" | "running" | "returned" | "raised"
    ga_value,       \* per key: the list the collector's collect_data returned
    ga_done,        \* history: positions in tasks.values() in the order the tasks ended
    ga_collected,   \* local `collected`, or <<>>
    \* ---- one DealQualificationAgent and one activation of run
    dq_pc,          \* "idle" | "register" | "gather" | "done"
    dq_collectors,  \* self.collectors: what each collector's collect_data will deliver
    dq_done,        \* history: positions in `tasks` in the order the tasks ended
    dq_assessment   \* the DealAssessment returned, or <<>>

retryVars == <<max_retries, base_delay, rpc, attempt, last_exception,
               retry_result, calls, waits>>

collectVars == <<ctor_arg, rate_limit_delay, source_kind, max_results,
                 fetch_permanent, fetch_failures, fetch_payload, cpc, raw_data,
                 idx, normalized_data, collect_result, propagated, fetch_calls,
                 fetch_errors, events>>

pipeVars == <<ppc, task_state, task_value, collected, report, pipeline_error,
              clock, round_dirs, prev_report>>

scoreVars == <<sc_pc, sc_in, sc_empty, sc_weaknesses, sc_fit>>

signalVars == <<sg_pc, sg_pitch, sg_wp, sg_web, sg_market, sg_comp>>

gatherVars == <<ga_pc, ga_state, ga_value, ga_done, ga_collected>>

dqVars == <<dq_pc, dq_collectors, dq_done, dq_assessment>>

vars == <<retryVars, collectVars, pipeVars, scoreVars, signalVars, gatherVars, dqVars>>

\* Python's None.
NoneVal == "None"

(***************************************************************************)
(* Bounds of the model.                                                    *)
(***************************************************************************)
\* largest max_retries an instance is configured with
MaxRetriesCap == 4
\* largest base_delay an instance is configured with
MaxBaseDelayCap == 2
\* longest list _collect_raw_data returns
MaxRawItems == 2
\* largest max_results a caller passes
MaxResultsCap == 3
\* longest list of normalized records a collector hands to the pipeline
MaxRecords == 1
\* longest weakness list _compute_investor_fit is called with on its own
MaxWeaknessCount == 11
\* longest time between two runs, in clock ticks
MaxClockStep == 2
\* longest list the market and competition heuristics are called with on their own
MaxSignalRecords == 2
\* longest list a collector task returns when the order of task ends is followed
MaxGatherRecords == 1
\* most collectors registered with a DealQualificationAgent
MaxCollectors == 3
\* longest list a registered collector returns
MaxDqPoints == 1

\* Messages carried by the exceptions the environment raises; str(e) may
\* be the empty string.
ErrMsgs == {"", "timeout", "refused"}

\* Values a wrapped coroutine function returns on success.
FuncValues == {"payload_a", "payload_b"}

(***************************************************************************)
(* BaseCollector.__init__ defaults.                                        *)
(***************************************************************************)
DefaultMaxRetries == 3
DefaultBaseDelay == 1

RECURSIVE Pow2(_)
Pow2(n) == IF n = 0 THEN 1 ELSE 2 * Pow2(n - 1)

(***************************************************************************)
(* _retry_with_backoff (base_collector.py:225-251)                         *)
(***************************************************************************)
RetryIdle ==
    /\ max_retries = DefaultMaxRetries
    /\ base_delay = DefaultBaseDelay
    /\ rpc = "idle"
    /\ attempt = 0
    /\ last_exception = NoneVal
    /\ retry_result = NoneVal
    /\ calls = 0
    /\ waits = <<>>

\* `for attempt in range(self.max_retries)`: the loop body runs for `a`.
RetryLoopOffByOne(a) == a <= max_retries
RetryInRange(a) == a < max_retries

\* `if attempt < self.max_retries - 1`: another attempt follows this one.
RetryHasNextAlways(a) == TRUE
RetryHasNext(a) == a < max_retries - 1

\* `delay = self.base_delay * (2 ** attempt)`
RetryDelay(a) == base_delay * Pow2(a)

\* The instance is constructed (defaults 3 and 1.0, possibly reconfigured
\* through the public attributes) and _retry_with_backoff(func) is entered.
RetryInit ==
    /\ max_retries \in 1..MaxRetriesCap
    /\ base_delay \in 1..MaxBaseDelayCap
    /\ rpc = "call"
    /\ attempt = 0
    /\ last_exception = NoneVal
    /\ retry_result = NoneVal
    /\ calls = 0
    /\ waits = <<>>

\* range(max_retries) is exhausted: fall out of the loop, `return None`.
RetryExhausted ==
    /\ rpc = "call"
    /\ ~RetryInRange(attempt)
    /\ rpc' = "done"
    /\ retry_result' = NoneVal
    /\ UNCHANGED <<max_retries, base_delay, attempt, last_exception, calls, waits>>
    /\ UNCHANGED <<collectVars, pipeVars, scoreVars, signalVars, gatherVars, dqVars>>

\* `return await func(*args, **kwargs)` returns normally.
RetryAttemptSucceeds ==
    /\ rpc = "call"
    /\ RetryInRange(attempt)
    /\ \E v \in FuncValues :
        /\ calls' = calls + 1
        /\ retry_result' = v
        /\ rpc' = "done"
    /\ UNCHANGED <<max_retries, base_delay, attempt, last_exception, waits>>
    /\ UNCHANGED <<collectVars, pipeVars, scoreVars, signalVars, gatherVars, dqVars>>

\* `await func(...)` raises: remember the exception, then either start the
\* backoff sleep or (last attempt) log and move to the next loop iteration.
RetryAttemptFails ==
    /\ rpc = "call"
    /\ RetryInRange(attempt)
    /\ \E msg \in ErrMsgs :
        /\ calls' = calls + 1
        /\ last_exception' = msg
    /\ IF RetryHasNext(attempt)
       THEN /\ waits' = Append(waits, RetryDelay(attempt))
            /\ rpc' = "sleep"
            /\ UNCHANGED attempt
       ELSE /\ attempt' = attempt + 1
            /\ rpc' = "call"
            /\ UNCHANGED waits
    /\ UNCHANGED <<max_retries, base_delay, retry_result>>
    /\ UNCHANGED <<collectVars, pipeVars, scoreVars, signalVars, gatherVars, dqVars>>

\* asyncio.sleep(delay) returns: next loop iteration.
RetryWake ==
    /\ rpc = "sleep"
    /\ attempt' = attempt + 1
    /\ rpc' = "call"
    /\ UNCHANGED <<max_retries, base_delay, last_exception, retry_result, calls, waits>>
    /\ UNCHANGED <<collectVars, pipeVars, scoreVars, signalVars, gatherVars, dqVars>>

(***************************************************************************)
(* Raw items and data points of one collector.                             *)
(*                                                                         *)
(* A raw item is what _collect_raw_data yields: normally a dict, of which  *)
(* the model keeps whether each key read by the base class holds a truthy  *)
(* value, or some other object (shape "other") on which .get() raises.     *)
(* `id` is the item's position in the fetched list; it stands for the      *)
(* item's remaining keys, which _extract_structured_data copies verbatim.  *)
(***************************************************************************)
Booleans == {TRUE, FALSE}

Dict(content, text, data, url, source_url, link, metadata, title) ==
    [shape |-> "dict", content |-> content, text |-> text, data |-> data,
     url |-> url, source_url |-> source_url, link |-> link,
     metadata |-> metadata, title |-> title]

\* The raw items the environment returns: an object that is no dict, the
\* empty dict, and dicts holding some or all of the keys the base class reads.
RawItemKinds ==
    {[shape |-> "other", content |-> FALSE, text |-> FALSE, data |-> FALSE,
      url |-> FALSE, source_url |-> FALSE, link |-> FALSE,
      metadata |-> FALSE, title |-> FALSE],
     Dict(FALSE, FALSE, FALSE, FALSE, FALSE, FALSE, FALSE, FALSE),
     Dict(TRUE, FALSE, FALSE, FALSE, FALSE, FALSE, FALSE, FALSE),
     Dict(TRUE, FALSE, FALSE, TRUE, FALSE, FALSE, FALSE, FALSE),
     Dict(FALSE, TRUE, FALSE, FALSE, TRUE, FALSE, FALSE, FALSE),
     Dict(FALSE, FALSE, FALSE, TRUE, FALSE, FALSE, FALSE, TRUE),
     Dict(FALSE, FALSE, FALSE, FALSE, FALSE, FALSE, TRUE, FALSE),
     Dict(FALSE, FALSE, TRUE, FALSE, FALSE, TRUE, FALSE, FALSE),
     Dict(TRUE, TRUE, TRUE, TRUE, TRUE, TRUE, TRUE, TRUE)}

WithId(kind, i) ==
    [id |-> i, shape |-> kind.shape, content |-> kind.content, text |-> kind.text,
     data |-> kind.data, url |-> kind.url, source_url |-> kind.source_url,
     link |-> kind.link, metadata |-> kind.metadata, title |-> kind.title]

\* The lists _collect_raw_data may return.
Payloads ==
    UNION {{[i \in 1..n |-> WithId(ks[i], i)] : ks \in [1..n -> RawItemKinds]} :
            n \in 0..MaxRawItems}

\* DataSource (base_collector.py:26-32)
DataSource == {"pitch_deck", "whitepaper", "website", "tokenomics", "founder_profile"}

\* Optional values: None is <<>>, a value v is <<v>>.
None == <<>>
Some(v) == <<v>>

(***************************************************************************)
(* BaseCollector.__init__ (base_collector.py:111-115)                      *)
(***************************************************************************)
\* Config.RATE_LIMIT_DELAY (utils/config.py:14), default of the environment
ConfigRateLimitDelay == 1

\* `rate_limit_delay or self.config.RATE_LIMIT_DELAY`
InitRateLimitDelay(arg) ==
    IF arg = None \/ arg = Some(0) THEN ConfigRateLimitDelay ELSE arg[1]

(***************************************************************************)
(* _calculate_confidence_score (base_collector.py:253-275), in hundredths  *)
(***************************************************************************)
Min(a, b) == IF a <= b THEN a ELSE b
Max(a, b) == IF a >= b THEN a ELSE b

calculate_confidence_score_uncapped(raw) ==
    70
    + (IF raw.content THEN 20 ELSE 0) + (IF raw.text THEN 20 ELSE 0)
    + (IF raw.url \/ raw.source_url THEN 10 ELSE 0)
    + (IF raw.metadata THEN 10 ELSE 0)
    + (IF raw.title THEN 10 ELSE 0)

\* A score that passes over the metadata check.
calculate_confidence_score_no_metadata(raw) ==
    Min(50
        + (IF raw.content \/ raw.text THEN 20 ELSE 0)
        + (IF raw.url \/ raw.source_url THEN 10 ELSE 0)
        + (IF raw.title THEN 10 ELSE 0),
        100)

calculate_confidence_score(raw) ==
    Min(50
        + (IF raw.content \/ raw.text THEN 20 ELSE 0)
        + (IF raw.url \/ raw.source_url THEN 10 ELSE 0)
        + (IF raw.metadata THEN 10 ELSE 0)
        + (IF raw.title THEN 10 ELSE 0),
        100)

\* _extract_structured_data (base_collector.py:277-291): the keys that are
\* not content/text/data/url/source_url/link/html.
extract_structured_data(raw) ==
    [id |-> raw.id, metadata |-> raw.metadata, title |-> raw.title]

(***************************************************************************)
(* _normalize_data (base_collector.py:181-223): None when anything inside  *)
(* raises (here: .get() on an object that is no dict).                     *)
(***************************************************************************)
\* An item that cannot be normalized is replaced by a degraded record.
normalize_data_or_degraded(raw, kind) ==
    IF raw.shape # "dict"
    THEN Some([source_type |-> kind,
               source_url |-> FALSE,
               raw_content |-> FALSE,
               structured_data |-> [id |-> raw.id, metadata |-> FALSE, title |-> FALSE],
               confidence_score |-> 10,
               errors |-> <<"normalization failed">>,
               degraded_note |-> TRUE])
    ELSE Some([source_type |-> kind,
               source_url |-> raw.url \/ raw.source_url \/ raw.link,
               raw_content |-> raw.content \/ raw.text \/ raw.data,
               structured_data |-> [id |-> raw.id, metadata |-> raw.metadata, title |-> raw.title],
               confidence_score |-> 50,
               errors |-> <<>>,
               degraded_note |-> FALSE])
normalize_data(raw, kind) ==
    IF raw.shape # "dict"
    THEN None
    ELSE Some([source_type |-> kind,
               source_url |-> raw.url \/ raw.source_url \/ raw.link,
               raw_content |-> raw.content \/ raw.text \/ raw.data,
               structured_data |-> extract_structured_data(raw),
               confidence_score |-> calculate_confidence_score(raw),
               errors |-> <<>>,
               degraded_note |-> FALSE])

(***************************************************************************)
(* _graceful_degradation (base_collector.py:333-358)                       *)
(***************************************************************************)
\* A degraded record stamped with a fixed DataSource member.
graceful_degradation_fixed_kind(kind, error_msg) ==
    <<[source_type |-> "website",
       source_url |-> FALSE,
       raw_content |-> FALSE,
       structured_data |-> [id |-> 0, metadata |-> FALSE, title |-> FALSE],
       confidence_score |-> 10,
       errors |-> <<error_msg>>,
       degraded_note |-> TRUE]>>

graceful_degradation(kind, error_msg) ==
    <<[source_type |-> kind,
       source_url |-> FALSE,
       raw_content |-> FALSE,
       structured_data |-> [id |-> 0, metadata |-> FALSE, title |-> FALSE],
       confidence_score |-> 10,
       errors |-> <<error_msg>>,
       degraded_note |-> TRUE]>>

\* A slice that keeps one record more than asked for.
TakeOneMore(seq, n) == SubSeq(seq, 1, Min(n + 1, Len(seq)))

\* A slice that keeps the last records instead of the first.
TakeLast(seq, n) == SubSeq(seq, Len(seq) - Min(n, Len(seq)) + 1, Len(seq))

\* normalized_data[:max_results]
Take(seq, n) == SubSeq(seq, 1, Min(n, Len(seq)))

(***************************************************************************)
(* collect_data (base_collector.py:117-167)                                *)
(***************************************************************************)
CollectIdle ==
    /\ ctor_arg = None
    /\ rate_limit_delay = ConfigRateLimitDelay
    /\ source_kind = "website"
    /\ max_results = 0
    /\ fetch_permanent = FALSE
    /\ fetch_failures = 0
    /\ fetch_payload = <<>>
    /\ cpc = "idle"
    /\ raw_data = <<>>
    /\ idx = 0
    /\ normalized_data = <<>>
    /\ collect_result = <<>>
    /\ propagated = NoneVal
    /\ fetch_calls = 0
    /\ fetch_errors = <<>>
    /\ events = <<>>

\* A collector is constructed and collect_data(startup_name, keywords,
\* max_results) is entered.  The environment decides how the source behaves:
\* it fails for good, or fails for the next fetch_failures calls and then
\* returns fetch_payload.
CollectInit ==
    /\ ctor_arg \in {None, Some(0), Some(2)}
    /\ rate_limit_delay = InitRateLimitDelay(ctor_arg)
    /\ source_kind \in {"website", "founder_profile"}
    /\ max_results \in 0..MaxResultsCap
    /\ fetch_permanent \in Booleans
    /\ fetch_failures \in 0..(DefaultMaxRetries - 1)
    /\ fetch_payload \in Payloads
    /\ fetch_permanent => fetch_failures = 0 /\ fetch_payload = <<>>
    /\ cpc = "fetch"
    /\ raw_data = <<>>
    /\ idx = 0
    /\ normalized_data = <<>>
    /\ collect_result = <<>>
    /\ propagated = NoneVal
    /\ fetch_calls = 0
    /\ fetch_errors = <<>>
    /\ events = <<>>

FetchRaises == fetch_permanent \/ fetch_failures > 0

\* `raw_data = await self._collect_raw_data(**search_context)` returns.
CollectFetchReturns ==
    /\ cpc = "fetch"
    /\ ~FetchRaises
    /\ fetch_calls' = fetch_calls + 1
    /\ raw_data' = fetch_payload
    /\ idx' = 1
    /\ cpc' = "loop"
    /\ UNCHANGED <<ctor_arg, rate_limit_delay, source_kind, max_results,
                   fetch_permanent, fetch_failures, fetch_payload,
                   normalized_data, collect_result, propagated, fetch_errors,
                   events>>
    /\ UNCHANGED <<retryVars, pipeVars, scoreVars, signalVars, gatherVars, dqVars>>

\* The outer `except Exception as e`: the value collect_data returns when
\* the fetch raised with message msg.
CollectOnErrorReraise(kind, msg) == [result |-> <<>>, raised |-> "raised: " \o msg]
CollectOnError(kind, msg) ==
    [result |-> graceful_degradation(kind, msg), raised |-> NoneVal]

\* `await self._collect_raw_data(...)` raises: the outer handler returns the
\* degraded list.  The call is not wrapped in _retry_with_backoff.
CollectFetchRaises ==
    /\ cpc = "fetch"
    /\ FetchRaises
    /\ fetch_calls' = fetch_calls + 1
    /\ fetch_failures' = IF fetch_permanent THEN 0 ELSE fetch_failures - 1
    /\ \E msg \in ErrMsgs :
        /\ fetch_errors' = Append(fetch_errors, msg)
        /\ collect_result' = CollectOnError(source_kind, msg).result
        /\ propagated' = CollectOnError(source_kind, msg).raised
    /\ cpc' = "done"
    /\ UNCHANGED <<ctor_arg, rate_limit_delay, source_kind, max_results,
                   fetch_permanent, fetch_payload, raw_data, idx,
                   normalized_data, events>>
    /\ UNCHANGED <<retryVars, pipeVars, scoreVars, signalVars, gatherVars, dqVars>>

\* One iteration of `for item in raw_data` up to its suspension point:
\* a normalized item is appended and the rate-limit sleep starts; an item
\* that normalizes to None is passed over without sleeping.
CollectNormalize ==
    /\ cpc = "loop"
    /\ idx <= Len(raw_data)
    /\ LET normalized == normalize_data(raw_data[idx], source_kind)
       IN IF normalized # None
          THEN /\ normalized_data' = Append(normalized_data, normalized[1])
               /\ events' = events \o <<<<"normalize", idx, 1>>,
                                        <<"sleep", rate_limit_delay, 0>>>>
               /\ cpc' = "sleep"
               /\ UNCHANGED idx
          ELSE /\ events' = Append(events, <<"normalize", idx, 0>>)
               /\ idx' = idx + 1
               /\ UNCHANGED <<normalized_data, cpc>>
    /\ UNCHANGED <<ctor_arg, rate_limit_delay, source_kind, max_results,
                   fetch_permanent, fetch_failures, fetch_payload, raw_data,
                   collect_result, propagated, fetch_calls, fetch_errors>>
    /\ UNCHANGED <<retryVars, pipeVars, scoreVars, signalVars, gatherVars, dqVars>>

\* asyncio.sleep(self.rate_limit_delay) returns: next item.
CollectWake ==
    /\ cpc = "sleep"
    /\ idx' = idx + 1
    /\ cpc' = "loop"
    /\ UNCHANGED <<ctor_arg, rate_limit_delay, source_kind, max_results,
                   fetch_permanent, fetch_failures, fetch_payload, raw_data,
                   normalized_data, collect_result, propagated, fetch_calls,
                   fetch_errors, events>>
    /\ UNCHANGED <<retryVars, pipeVars, scoreVars, signalVars, gatherVars, dqVars>>

\* The loop is over: `return normalized_data[:max_results]`.
CollectReturn ==
    /\ cpc = "loop"
    /\ idx > Len(raw_data)
    /\ collect_result' = Take(normalized_data, max_results)
    /\ cpc' = "done"
    /\ UNCHANGED <<ctor_arg, rate_limit_delay, source_kind, max_results,
                   fetch_permanent, fetch_failures, fetch_payload, raw_data,
                   idx, normalized_data, propagated, fetch_calls, fetch_errors,
                   events>>
    /\ UNCHANGED <<retryVars, pipeVars, scoreVars, signalVars, gatherVars, dqVars>>

(***************************************************************************)
(* Scoring arithmetic.                                                     *)
(*                                                                         *)
(* The code computes in binary floating point and ends every score with    *)
(* int(round(x * 100)).  The model computes x * 100 exactly, as a fraction *)
(* num/den.  Away from an exact half the float error (some 1e-14) cannot   *)
(* change the rounded integer.  At an exact half the float product lands   *)
(* on, just below or just above the half, so that round() yields either    *)
(* neighbour depending on the operands: `up` is the direction it takes for *)
(* the operands at hand.                                                   *)
(***************************************************************************)
Frac(n, d) == [num |-> n, den |-> d]

Clamp(x, lo, hi) == Max(lo, Min(hi, x))

IsHalf(x) == 2 * (x.num % x.den) = x.den

PyRound(x, up) ==
    LET q == x.num \div x.den
        r == x.num % x.den
    IN IF 2 * r < x.den THEN q
       ELSE IF 2 * r > x.den THEN q + 1
       ELSE IF up THEN q + 1 ELSE q

\* max(a, b) of two fractions with positive denominators
FracMax(a, b) == IF a.num * b.den >= b.num * a.den THEN a ELSE b

RECURSIVE SumSeq(_)
SumSeq(sq) == IF sq = <<>> THEN 0 ELSE sq[1] + SumSeq(Tail(sq))

(***************************************************************************)
(* Data points as the scoring functions read them.  structured_data holds, *)
(* per field, None when the key is missing or its value has the wrong      *)
(* shape, else the value:                                                  *)
(*   overall_score     overall_assessment.overall_score       (hundredths) *)
(*   quality_score     quality_score                          (hundredths) *)
(*   market_size, competitive_advantage   sections[...] is truthy          *)
(*   section_coverage  quality_indicators.section_coverage    (hundredths) *)
(*   writing_quality   the numeric values among the five keys read from    *)
(*                     writing_quality, in key order          (hundredths) *)
(*   company_information   <<truthy values, len>> of the dict              *)
(*   crawled_pages     len of the dict                                     *)
(***************************************************************************)
EmptyStructuredData ==
    [overall_score |-> None, quality_score |-> None, market_size |-> FALSE,
     competitive_advantage |-> FALSE, section_coverage |-> None,
     writing_quality |-> <<>>, company_information |-> None,
     crawled_pages |-> None]

DataPoint(kind, confidence, errors, sd) ==
    [source_type |-> kind, confidence_score |-> confidence, errors |-> errors,
     structured_data |-> sd]

\* The single record of _graceful_degradation, as the scoring functions see it.
DegradedPoint(kind, msg) ==
    DataPoint(kind, graceful_degradation(kind, msg)[1].confidence_score,
              graceful_degradation(kind, msg)[1].errors, EmptyStructuredData)

(***************************************************************************)
(* _compute_founder_score (dqda_agent.py:172-185)                          *)
(***************************************************************************)
\* A founder value read from structured_data alone.
FounderValueNoFallback(dp) ==
    IF dp.structured_data.overall_score # None
    THEN dp.structured_data.overall_score[1]
    ELSE 0

FounderValue(dp) ==
    IF dp.structured_data.overall_score # None
    THEN dp.structured_data.overall_score[1]
    ELSE dp.confidence_score

\* max(0.0, min(1.0, avg)) * 100
founder_points(founders) ==
    LET scores == [i \in 1..Len(founders) |-> FounderValue(founders[i])]
    IN Frac(Clamp(SumSeq(scores), 0, 100 * Len(scores)), Len(scores))

compute_founder_score(founders, up) ==
    IF founders = <<>> THEN 0 ELSE PyRound(founder_points(founders), up)

(***************************************************************************)
(* _compute_market_analysis (dqda_agent.py:187-252)                        *)
(***************************************************************************)
\* A lookup of the section under a key no pitch-deck record holds.
has_market_section_wrong_key(pitch_decks) == FALSE

has_market_section(pitch_decks) ==
    \E i \in 1..Len(pitch_decks) : pitch_decks[i].structured_data.market_size

\* The coverage of the last pitch-deck record that states one.
section_coverage_last(pitch_decks) ==
    LET stated == {i \in 1..Len(pitch_decks) :
                    pitch_decks[i].structured_data.section_coverage # None}
    IN IF stated = {} THEN 0
       ELSE pitch_decks[CHOOSE i \in stated : \A j \in stated : j <= i]
                .structured_data.section_coverage[1]

RECURSIVE section_coverage(_)
section_coverage(pitch_decks) ==
    IF pitch_decks = <<>> THEN 0
    ELSE LET rest == section_coverage(SubSeq(pitch_decks, 1, Len(pitch_decks) - 1))
             qi == pitch_decks[Len(pitch_decks)].structured_data.section_coverage
         IN IF qi # None THEN Max(rest, qi[1]) ELSE rest

RECURSIVE wp_quality(_)
wp_quality(whitepapers) ==
    IF whitepapers = <<>> THEN Frac(0, 1)
    ELSE LET rest == wp_quality(SubSeq(whitepapers, 1, Len(whitepapers) - 1))
             score_parts == whitepapers[Len(whitepapers)].structured_data.writing_quality
         IN IF score_parts # <<>>
            THEN FracMax(rest, Frac(SumSeq(score_parts), Len(score_parts)))
            ELSE rest

RECURSIVE site_info_completeness(_)
site_info_completeness(websites) ==
    IF websites = <<>> THEN Frac(0, 1)
    ELSE LET rest == site_info_completeness(SubSeq(websites, 1, Len(websites) - 1))
             company_info == websites[Len(websites)].structured_data.company_information
         IN IF company_info # None
            THEN FracMax(rest, Frac(company_info[1][1], Max(1, company_info[1][2])))
            ELSE rest

\* max(0.0, min(1.0, score)) * 100 for
\*   score = (0.45 | 0.15) + min(cov, 1) * 0.25 + min(site, 1) * 0.2 + min(wp, 1) * 0.1
market_points(pitch_decks, whitepapers, websites) ==
    LET base == IF has_market_section(pitch_decks) THEN 45 ELSE 15
        cov == Min(section_coverage(pitch_decks), 100)
        site0 == site_info_completeness(websites)
        site == IF site0.num >= site0.den THEN Frac(1, 1) ELSE site0
        wp0 == wp_quality(whitepapers)
        wp == IF wp0.num >= 100 * wp0.den THEN Frac(100, 1) ELSE wp0
        den == 100 * site.den * wp.den
        num == base * den + 25 * cov * site.den * wp.den
               + 2000 * site.num * wp.den + 10 * wp.num * site.den
    IN Frac(Clamp(num, 0, 100 * den), den)

market_signals(pitch_decks, whitepapers, websites) ==
    (IF has_market_section(pitch_decks)
        THEN <<"Pitch deck includes market sizing section">> ELSE <<>>)
    \o (IF section_coverage(pitch_decks) # 0
        THEN <<"Pitch deck section coverage">> ELSE <<>>)
    \o (IF wp_quality(whitepapers).num # 0
        THEN <<"Whitepaper writing quality">> ELSE <<>>)
    \o (IF site_info_completeness(websites).num # 0
        THEN <<"Website company info completeness">> ELSE <<>>)

compute_market_analysis(pitch_decks, whitepapers, websites, up) ==
    [score |-> PyRound(market_points(pitch_decks, whitepapers, websites), up),
     signals |-> market_signals(pitch_decks, whitepapers, websites)]

(***************************************************************************)
(* _compute_competition (dqda_agent.py:254-288)                            *)
(***************************************************************************)
has_competitive_section(pitch_decks) ==
    \E i \in 1..Len(pitch_decks) :
        pitch_decks[i].structured_data.competitive_advantage

\* The number of crawled pages summed over the website records.
pages_crawled_total(websites) ==
    SumSeq([i \in 1..Len(websites) |->
                IF websites[i].structured_data.crawled_pages # None
                THEN websites[i].structured_data.crawled_pages[1] ELSE 0])

RECURSIVE pages_crawled(_)
pages_crawled(websites) ==
    IF websites = <<>> THEN 0
    ELSE LET rest == pages_crawled(SubSeq(websites, 1, Len(websites) - 1))
             crawled == websites[Len(websites)].structured_data.crawled_pages
         IN IF crawled # None THEN Max(rest, crawled[1]) ELSE rest

\* A competition score that starts from 0 when no competitive section is found.
compute_competition_no_baseline(pitch_decks, websites) ==
    [score |-> Clamp((IF has_competitive_section(pitch_decks) THEN 60 ELSE 0)
                     + 4 * Min(pages_crawled(websites), 10), 0, 100),
     signals |->
        (IF has_competitive_section(pitch_decks)
            THEN <<"Pitch deck discusses competitive advantage">> ELSE <<>>)
        \o (IF pages_crawled(websites) # 0
            THEN <<"Website pages crawled">> ELSE <<>>)]

\* (0.6 | 0.3) + min(pages / 10, 1.0) * 0.4, clamped, times 100: a whole number
compute_competition(pitch_decks, websites) ==
    [score |-> Clamp((IF has_competitive_section(pitch_decks) THEN 60 ELSE 30)
                     + 4 * Min(pages_crawled(websites), 10), 0, 100),
     signals |->
        (IF has_competitive_section(pitch_decks)
            THEN <<"Pitch deck discusses competitive advantage">> ELSE <<>>)
        \o (IF pages_crawled(websites) # 0
            THEN <<"Website pages crawled">> ELSE <<>>)]

(***************************************************************************)
(* _compute_token_utility (dqda_agent.py:290-313)                          *)
(***************************************************************************)
TokenValue(dp) ==
    IF dp.structured_data.quality_score # None
    THEN dp.structured_data.quality_score[1]
    ELSE dp.confidence_score

token_points(tokens) ==
    LET quality_scores == [i \in 1..Len(tokens) |-> TokenValue(tokens[i])]
    IN Frac(Clamp(SumSeq(quality_scores), 0, 100 * Len(quality_scores)),
            Len(quality_scores))

\* The averaging path alone (`avg = ... if quality_scores else 0.0`).
compute_token_utility_unguarded(tokens, up) ==
    [score |-> IF tokens = <<>> THEN 0 ELSE PyRound(token_points(tokens), up),
     signals |-> <<"Derived from tokenomics collector quality/confidence">>]

compute_token_utility(tokens, up) ==
    IF tokens = <<>>
    THEN [score |-> 0, signals |-> <<"No tokenomics data available">>]
    ELSE [score |-> PyRound(token_points(tokens), up),
          signals |-> <<"Derived from tokenomics collector quality/confidence">>]

(***************************************************************************)
(* _identify_weaknesses (dqda_agent.py:315-349).  `empty` is the set of    *)
(* keys k for which `not collected.get(k)` holds.                          *)
(***************************************************************************)
LowThreshold == 40

\* The comparison turned around: a score at or over the threshold is flagged.
IsLowReversed(score) == score >= LowThreshold
IsLowInclusive(score) == score <= LowThreshold
IsLow(score) == score < LowThreshold

\* The 'no data collected' entries emitted only next to a low-score entry.
identify_weaknesses_low_only(founder_score, market_score, competition_score, token_score, empty) ==
    LET low == (IF IsLow(founder_score)
                    THEN <<"Low founder/team signal score">> ELSE <<>>)
            \o (IF IsLow(market_score)
                    THEN <<"Weak market evidence (limited market sizing / positioning signals)">>
                    ELSE <<>>)
            \o (IF IsLow(competition_score)
                    THEN <<"Limited competitive differentiation evidence">> ELSE <<>>)
            \o (IF IsLow(token_score)
                    THEN <<"Token utility/quality signal is weak or missing">> ELSE <<>>)
        shown == IF low = <<>> THEN {} ELSE empty
    IN low
       \o (IF "pitch_deck" \in shown THEN <<"No pitch deck data collected">> ELSE <<>>)
       \o (IF "whitepaper" \in shown THEN <<"No whitepaper data collected">> ELSE <<>>)
       \o (IF "website" \in shown THEN <<"No website crawl data collected">> ELSE <<>>)
       \o (IF "tokenomics" \in shown THEN <<"No tokenomics data collected">> ELSE <<>>)
       \o (IF "founders" \in shown
            THEN <<"No founder background data collected">> ELSE <<>>)

identify_weaknesses(founder_score, market_score, competition_score, token_score, empty) ==
    (IF IsLow(founder_score)
        THEN <<"Low founder/team signal score">> ELSE <<>>)
    \o (IF IsLow(market_score)
        THEN <<"Weak market evidence (limited market sizing / positioning signals)">>
        ELSE <<>>)
    \o (IF IsLow(competition_score)
        THEN <<"Limited competitive differentiation evidence">> ELSE <<>>)
    \o (IF IsLow(token_score)
        THEN <<"Token utility/quality signal is weak or missing">> ELSE <<>>)
    \o (IF "pitch_deck" \in empty THEN <<"No pitch deck data collected">> ELSE <<>>)
    \o (IF "whitepaper" \in empty THEN <<"No whitepaper data collected">> ELSE <<>>)
    \o (IF "website" \in empty THEN <<"No website crawl data collected">> ELSE <<>>)
    \o (IF "tokenomics" \in empty THEN <<"No tokenomics data collected">> ELSE <<>>)
    \o (IF "founders" \in empty
        THEN <<"No founder background data collected">> ELSE <<>>)

(***************************************************************************)
(* _compute_investor_fit (dqda_agent.py:351-383)                           *)
(***************************************************************************)
\* penalty = min(len(weaknesses) * 0.02, 0.2), in ten-thousandths
penalty_uncapped(count) == count * 200
penalty(count) == Min(count * 200, 2000)

\* max(0.0, min(1.0, normalized - penalty)) * 100
investor_fit_points(founder_score, market_score, competition_score, token_score, count) ==
    Frac(Clamp(35 * founder_score + 30 * market_score + 15 * competition_score
               + 20 * token_score - penalty(count), 0, 10000),
         100)

rating_exclusive(score) ==
    IF score > 75 THEN "strong" ELSE IF score > 55 THEN "moderate" ELSE "weak"
rating(score) ==
    IF score >= 75 THEN "strong" ELSE IF score >= 55 THEN "moderate" ELSE "weak"

compute_investor_fit(founder_score, market_score, competition_score, token_score, weaknesses, up) ==
    LET score == PyRound(investor_fit_points(founder_score, market_score,
                            competition_score, token_score, Len(weaknesses)), up)
    IN [score |-> score, rating |-> rating(score)]

(***************************************************************************)
(* The scoring functions on their own: sub-scores from a grid around the   *)
(* thresholds, any set of empty collector lists, any weakness count.       *)
(***************************************************************************)
ScoreGrid == {0, 39, 40, 54, 55, 74, 75, 100}

\* tasks.keys(), in insertion order (dqda_agent.py:56-84)
TaskKeys == <<"pitch_deck", "whitepaper", "website", "tokenomics", "founders">>
KeySet == {TaskKeys[i] : i \in 1..Len(TaskKeys)}

NoFit == [score |-> 0, rating |-> NoneVal]

ScoreIdle ==
    /\ sc_pc = "idle"
    /\ sc_in = [founder |-> 0, market |-> 0, competition |-> 0, token |-> 0]
    /\ sc_empty = {}
    /\ sc_weaknesses = <<>>
    /\ sc_fit = NoFit

ScoreInit ==
    /\ sc_pc = "input"
    /\ sc_in \in [founder : ScoreGrid, market : ScoreGrid,
                  competition : ScoreGrid, token : ScoreGrid]
    /\ sc_empty = {}
    /\ sc_weaknesses = <<>>
    /\ sc_fit = NoFit

\* _identify_weaknesses(founder_score, market_analysis, competition,
\* token_utility, collected) for some `collected`.
ScoreIdentify ==
    /\ sc_pc = "input"
    /\ \E empty \in SUBSET KeySet :
        /\ sc_empty' = empty
        /\ sc_weaknesses' = identify_weaknesses(sc_in.founder, sc_in.market,
                                sc_in.competition, sc_in.token, empty)
    /\ sc_pc' = "identified"
    /\ UNCHANGED <<sc_in, sc_fit>>
    /\ UNCHANGED <<retryVars, collectVars, pipeVars, signalVars, gatherVars, dqVars>>

\* A caller's own weakness list, of any length.
ScoreWeaknessesGiven ==
    /\ sc_pc = "input"
    /\ \E n \in 0..MaxWeaknessCount :
        sc_weaknesses' = [i \in 1..n |-> "weakness"]
    /\ sc_pc' = "given"
    /\ UNCHANGED <<sc_in, sc_empty, sc_fit>>
    /\ UNCHANGED <<retryVars, collectVars, pipeVars, signalVars, gatherVars, dqVars>>

\* _compute_investor_fit(founder_score, market_score, competition_score,
\* token_score, weaknesses)
ScoreFit ==
    /\ sc_pc \in {"identified", "given"}
    /\ \E up \in Booleans :
        /\ up => IsHalf(investor_fit_points(sc_in.founder, sc_in.market,
                        sc_in.competition, sc_in.token, Len(sc_weaknesses)))
        /\ sc_fit' = compute_investor_fit(sc_in.founder, sc_in.market,
                        sc_in.competition, sc_in.token, sc_weaknesses, up)
    /\ sc_pc' = "done"
    /\ UNCHANGED <<sc_in, sc_empty, sc_weaknesses>>
    /\ UNCHANGED <<retryVars, collectVars, pipeVars, signalVars, gatherVars, dqVars>>

(***************************************************************************)
(* _compute_market_analysis and _compute_competition on their own: lists   *)
(* of records whose metrics lie in, at the edge of and beyond [0, 1].      *)
(***************************************************************************)
SgPitchRecords ==
    {DataPoint("pitch_deck", 50, <<>>, EmptyStructuredData),
     DataPoint("pitch_deck", 85, <<>>,
        [EmptyStructuredData EXCEPT !.market_size = TRUE,
            !.section_coverage = Some(80)]),
     DataPoint("pitch_deck", 70, <<>>,
        [EmptyStructuredData EXCEPT !.competitive_advantage = TRUE,
            !.section_coverage = Some(30)]),
     DataPoint("pitch_deck", 90, <<>>,
        [EmptyStructuredData EXCEPT !.market_size = TRUE,
            !.competitive_advantage = TRUE, !.section_coverage = Some(120)])}

SgWhitepaperRecords ==
    {DataPoint("whitepaper", 80, <<>>, EmptyStructuredData),
     DataPoint("whitepaper", 80, <<>>,
        [EmptyStructuredData EXCEPT !.writing_quality = <<50, 100>>]),
     DataPoint("whitepaper", 80, <<>>,
        [EmptyStructuredData EXCEPT !.writing_quality = <<130>>])}

SgWebsiteRecords ==
    {DataPoint("website", 60, <<>>, EmptyStructuredData),
     DataPoint("website", 75, <<>>,
        [EmptyStructuredData EXCEPT !.company_information = Some(<<3, 3>>),
            !.crawled_pages = Some(1)]),
     DataPoint("website", 75, <<>>,
        [EmptyStructuredData EXCEPT !.company_information = Some(<<1, 3>>),
            !.crawled_pages = Some(12)]),
     DataPoint("website", 75, <<>>,
        [EmptyStructuredData EXCEPT !.company_information = Some(<<0, 0>>),
            !.crawled_pages = Some(10)])}

SeqsUpTo(set, n) == UNION {[1..k -> set] : k \in 0..n}

SignalIdle ==
    /\ sg_pc = "idle"
    /\ sg_pitch = <<>>
    /\ sg_wp = <<>>
    /\ sg_web = <<>>
    /\ sg_market = <<>>
    /\ sg_comp = <<>>

SignalInit ==
    /\ sg_pc = "input"
    /\ sg_pitch \in SeqsUpTo(SgPitchRecords, MaxSignalRecords)
    /\ sg_wp \in SeqsUpTo(SgWhitepaperRecords, MaxSignalRecords)
    /\ sg_web \in SeqsUpTo(SgWebsiteRecords, MaxSignalRecords)
    /\ sg_market = <<>>
    /\ sg_comp = <<>>

\* _compute_market_analysis(pitch_decks=, whitepapers=, websites=)
SignalMarket ==
    /\ sg_pc = "input"
    /\ sg_market = <<>>
    /\ \E up \in Booleans :
        /\ up => IsHalf(market_points(sg_pitch, sg_wp, sg_web))
        /\ sg_market' = compute_market_analysis(sg_pitch, sg_wp, sg_web, up)
    /\ UNCHANGED <<sg_pc, sg_pitch, sg_wp, sg_web, sg_comp>>
    /\ UNCHANGED <<retryVars, collectVars, pipeVars, scoreVars, gatherVars, dqVars>>

\* _compute_competition(pitch_decks=, websites=)
SignalCompetition ==
    /\ sg_pc = "input"
    /\ sg_comp = <<>>
    /\ sg_comp' = compute_competition(sg_pitch, sg_web)
    /\ UNCHANGED <<sg_pc, sg_pitch, sg_wp, sg_web, sg_market>>
    /\ UNCHANGED <<retryVars, collectVars, pipeVars, scoreVars, gatherVars, dqVars>>

(***************************************************************************)
(* run_full_pipeline (dqda_agent.py:43-143)                                *)
(***************************************************************************)
\* The source kind each registered collector declares.
KindOf(key) ==
    CASE key = "pitch_deck" -> "pitch_deck"
      [] key = "whitepaper" -> "whitepaper"
      [] key = "website" -> "website"
      [] key = "tokenomics" -> "tokenomics"
      [] key = "founders" -> "founder_profile"

\* Normalized records a collector may hold (after test_dqda_agent.py:42-113).
RecordsOf(key) ==
    CASE key = "pitch_deck" ->
            {DataPoint("pitch_deck", 85, <<>>,
                [EmptyStructuredData EXCEPT !.market_size = TRUE,
                    !.competitive_advantage = TRUE, !.section_coverage = Some(80)]),
             DataPoint("pitch_deck", 50, <<>>, EmptyStructuredData)}
      [] key = "whitepaper" ->
            {DataPoint("whitepaper", 80, <<>>,
                [EmptyStructuredData EXCEPT !.writing_quality = <<70>>]),
             DataPoint("whitepaper", 80, <<>>, EmptyStructuredData)}
      [] key = "website" ->
            {DataPoint("website", 75, <<>>,
                [EmptyStructuredData EXCEPT !.company_information = Some(<<3, 3>>),
                    !.crawled_pages = Some(1)]),
             DataPoint("website", 60, <<>>,
                [EmptyStructuredData EXCEPT !.crawled_pages = Some(12)])}
      [] key = "tokenomics" ->
            {DataPoint("tokenomics", 90, <<>>,
                [EmptyStructuredData EXCEPT !.quality_score = Some(90)]),
             DataPoint("tokenomics", 70, <<>>, EmptyStructuredData)}
      [] key = "founders" ->
            {DataPoint("founder_profile", 80, <<>>,
                [EmptyStructuredData EXCEPT !.overall_score = Some(76)]),
             DataPoint("founder_profile", 50, <<>>, EmptyStructuredData)}

\* What collect_data of the collector registered under key may return: no
\* record, the degraded record alone, or normalized records.
ListsOf(key) ==
    {<<>>}
    \cup {<<DegradedPoint(KindOf(key), msg)>> : msg \in {"timeout"}}
    \cup UNION {[1..n -> RecordsOf(key)] : n \in 1..MaxRecords}

AllKeys(v) == [k \in KeySet |-> v]

\* The directions float rounding takes at the four round() calls of a run.
RoundSites == {"founder", "market", "token", "investor_fit"}

NoDirs == [site \in RoundSites |-> FALSE]

PipeIdle ==
    /\ ppc = "idle"
    /\ task_state = AllKeys("created")
    /\ task_value = AllKeys(<<>>)
    /\ collected = AllKeys([kind |-> "unset", items |-> <<>>])
    /\ report = <<>>
    /\ pipeline_error = NoneVal
    /\ clock = 0
    /\ round_dirs = NoDirs
    /\ prev_report = <<>>

PipeInit ==
    /\ ppc = "start"
    /\ task_state = AllKeys("created")
    /\ task_value = AllKeys(<<>>)
    /\ collected = AllKeys([kind |-> "unset", items |-> <<>>])
    /\ report = <<>>
    /\ pipeline_error = NoneVal
    /\ clock = 0
    /\ round_dirs = NoDirs
    /\ prev_report = <<>>

\* The five coroutines are built and asyncio.gather schedules them all.
PipelineStart ==
    /\ ppc = "start"
    /\ task_state' = AllKeys("running")
    /\ ppc' = "gather"
    /\ UNCHANGED <<task_value, collected, report, pipeline_error>>
    /\ UNCHANGED <<clock, round_dirs, prev_report>>
    /\ UNCHANGED <<retryVars, collectVars, scoreVars, signalVars, gatherVars, dqVars>>

\* A collector's collect_data returns a list.
TaskReturns(key) ==
    /\ ppc = "gather"
    /\ task_state[key] = "running"
    /\ \E lst \in ListsOf(key) :
        task_value' = [task_value EXCEPT ![key] = lst]
    /\ task_state' = [task_state EXCEPT ![key] = "returned"]
    /\ UNCHANGED <<ppc, collected, report, pipeline_error>>
    /\ UNCHANGED <<clock, round_dirs, prev_report>>
    /\ UNCHANGED <<retryVars, collectVars, scoreVars, signalVars, gatherVars, dqVars>>

\* A collector's collect_data raises an Exception.
TaskRaises(key) ==
    /\ ppc = "gather"
    /\ task_state[key] = "running"
    /\ task_state' = [task_state EXCEPT ![key] = "raised"]
    /\ UNCHANGED <<ppc, task_value, collected, report, pipeline_error>>
    /\ UNCHANGED <<clock, round_dirs, prev_report>>
    /\ UNCHANGED <<retryVars, collectVars, scoreVars, signalVars, gatherVars, dqVars>>

\* A collector's task ends with asyncio.CancelledError, which is a
\* BaseException but no Exception.
TaskCancelled(key) ==
    /\ ppc = "gather"
    /\ task_state[key] = "running"
    /\ task_state' = [task_state EXCEPT ![key] = "cancelled"]
    /\ UNCHANGED <<ppc, task_value, collected, report, pipeline_error>>
    /\ UNCHANGED <<clock, round_dirs, prev_report>>
    /\ UNCHANGED <<retryVars, collectVars, scoreVars, signalVars, gatherVars, dqVars>>

\* gather(..., return_exceptions=True): the value delivered for a task.
GatherResult(key) ==
    CASE task_state[key] = "returned" -> [kind |-> "list", items |-> task_value[key]]
      [] task_state[key] = "raised" -> [kind |-> "Exception", items |-> <<>>]
      [] task_state[key] = "cancelled" -> [kind |-> "CancelledError", items |-> <<>>]

\* The fan-in loop (dqda_agent.py:93-99) for one (key, value) pair.
FanInKeepsException(value) == value
FanIn(value) ==
    IF value.kind = "Exception" THEN [kind |-> "list", items |-> <<>>] ELSE value

\* dqda_agent.py:101-141 on a `collected` holding only lists.
BuildReport(coll, up, now) ==
    LET founder_score == compute_founder_score(coll["founders"].items, up["founder"])
        market_analysis == compute_market_analysis(coll["pitch_deck"].items,
                                coll["whitepaper"].items, coll["website"].items,
                                up["market"])
        competition == compute_competition(coll["pitch_deck"].items,
                                coll["website"].items)
        token_utility == compute_token_utility(coll["tokenomics"].items, up["token"])
        weaknesses == identify_weaknesses(founder_score, market_analysis.score,
                                competition.score, token_utility.score,
                                {k \in KeySet : coll[k].items = <<>>})
        investor_fit == compute_investor_fit(founder_score, market_analysis.score,
                                competition.score, token_utility.score,
                                weaknesses, up["investor_fit"])
    IN [collection_timestamp |-> now,
        founder_score |-> founder_score,
        market_analysis |-> market_analysis,
        competition |-> competition,
        token_utility |-> token_utility,
        weaknesses |-> weaknesses,
        investor_fit |-> investor_fit,
        data_points |-> [k \in KeySet |-> coll[k].items]]

\* Whether round() at a site sees an exact half in this run.
SiteIsHalf(coll, up, site) ==
    CASE site = "founder" ->
            coll["founders"].items # <<>> /\ IsHalf(founder_points(coll["founders"].items))
      [] site = "market" ->
            IsHalf(market_points(coll["pitch_deck"].items,
                                 coll["whitepaper"].items, coll["website"].items))
      [] site = "token" ->
            coll["tokenomics"].items # <<>> /\ IsHalf(token_points(coll["tokenomics"].items))
      [] site = "investor_fit" ->
            LET r == BuildReport(coll, up, 0)
            IN IsHalf(investor_fit_points(r.founder_score, r.market_analysis.score,
                        r.competition.score, r.token_utility.score,
                        Len(r.weaknesses)))

\* gather has every result: fan-in, scoring and the report, up to `return`.
\* A value that is no list (a CancelledError instance) makes the first
\* scoring function that iterates it raise TypeError.
PipelineJoin ==
    /\ ppc = "gather"
    /\ \A k \in KeySet : task_state[k] # "running"
    /\ LET coll == [k \in KeySet |-> FanIn(GatherResult(k))]
       IN /\ collected' = coll
          /\ IF \E k \in KeySet : coll[k].kind # "list"
             THEN /\ pipeline_error' = "TypeError"
                  /\ ppc' = "failed"
                  /\ UNCHANGED <<report, round_dirs>>
             ELSE /\ \E up \in [RoundSites -> Booleans] :
                        /\ \A site \in RoundSites :
                                up[site] => SiteIsHalf(coll, up, site)
                        /\ round_dirs' = up
                        /\ report' = BuildReport(coll, up, clock)
                  /\ ppc' = "done"
                  /\ UNCHANGED pipeline_error
    /\ UNCHANGED <<task_state, task_value, clock, prev_report>>
    /\ UNCHANGED <<retryVars, collectVars, scoreVars, signalVars, gatherVars, dqVars>>

\* run_full_pipeline is called once more, some time later, and its five
\* collectors return the lists they returned before.  Rounding is a function
\* of its operands, so every round() goes the way it went.
PipelineRunAgain ==
    /\ ppc = "done"
    /\ prev_report = <<>>
    /\ \E dt \in 0..MaxClockStep : clock' = clock + dt
    /\ prev_report' = report
    /\ report' = BuildReport(collected, round_dirs, clock')
    /\ UNCHANGED <<ppc, task_state, task_value, collected, pipeline_error, round_dirs>>
    /\ UNCHANGED <<retryVars, collectVars, scoreVars, signalVars, gatherVars, dqVars>>

(***************************************************************************)
(* The fan-out and fan-in of run_full_pipeline (dqda_agent.py:56-99), with  *)
(* the order in which the five tasks end.                                  *)
(***************************************************************************)
\* The lists a collector hands back here: records that name their collector.
GatherLists(key) == SeqsUpTo({[collector |-> key]}, MaxGatherRecords)

\* The position of a key in tasks.values().
PosOf(key) == CHOOSE i \in 1..Len(TaskKeys) : TaskKeys[i] = key

GatherIdle ==
    /\ ga_pc = "idle"
    /\ ga_state = AllKeys("created")
    /\ ga_value = AllKeys(<<>>)
    /\ ga_done = <<>>
    /\ ga_collected = <<>>

\* The five coroutine objects are built (lines 56-84); none has run.
GatherInit ==
    /\ ga_pc = "start"
    /\ ga_state = AllKeys("created")
    /\ ga_value = AllKeys(<<>>)
    /\ ga_done = <<>>
    /\ ga_collected = <<>>

\* asyncio.gather(*tasks.values(), ...) wraps every coroutine in a task and
\* schedules it; the await hands control to the event loop.
GatherStart ==
    /\ ga_pc = "start"
    /\ ga_state' = AllKeys("running")
    /\ ga_pc' = "gather"
    /\ UNCHANGED <<ga_value, ga_done, ga_collected>>
    /\ UNCHANGED <<retryVars, collectVars, pipeVars, scoreVars, signalVars, dqVars>>

\* A task ends by returning a list.
GatherTaskReturns(key) ==
    /\ ga_pc = "gather"
    /\ ga_state[key] = "running"
    /\ \E lst \in GatherLists(key) :
        ga_value' = [ga_value EXCEPT ![key] = lst]
    /\ ga_state' = [ga_state EXCEPT ![key] = "returned"]
    /\ ga_done' = Append(ga_done, PosOf(key))
    /\ UNCHANGED <<ga_pc, ga_collected>>
    /\ UNCHANGED <<retryVars, collectVars, pipeVars, scoreVars, signalVars, dqVars>>

\* A task ends by raising an Exception.
GatherTaskRaises(key) ==
    /\ ga_pc = "gather"
    /\ ga_state[key] = "running"
    /\ ga_state' = [ga_state EXCEPT ![key] = "raised"]
    /\ ga_done' = Append(ga_done, PosOf(key))
    /\ UNCHANGED <<ga_pc, ga_value, ga_collected>>
    /\ UNCHANGED <<retryVars, collectVars, pipeVars, scoreVars, signalVars, dqVars>>

\* The value of a task that ended, as gather(return_exceptions=True) hands it on.
GatherOutcome(key) ==
    IF ga_state[key] = "returned" THEN [kind |-> "list", items |-> ga_value[key]]
    ELSE [kind |-> "Exception", items |-> <<>>]

\* asyncio.gather: the result list is in the order of the awaitables passed,
\* whatever the order `done` in which they ended.
gather_as_completed(outcomes, done) ==
    [i \in 1..Len(outcomes) |-> outcomes[done[i]]]
gather(outcomes, done) ==
    [i \in 1..Len(outcomes) |-> outcomes[i]]

\* gather resumes run_full_pipeline once every task has ended; lines 93-99
\* zip tasks.keys() with the results.
GatherJoin ==
    /\ ga_pc = "gather"
    /\ \A k \in KeySet : ga_state[k] \notin {"created", "running"}
    /\ LET results == gather([i \in 1..Len(TaskKeys) |-> GatherOutcome(TaskKeys[i])], ga_done)
       IN ga_collected' = [k \in KeySet |-> FanIn(results[PosOf(k)])]
    /\ ga_pc' = "scoring"
    /\ UNCHANGED <<ga_state, ga_value, ga_done>>
    /\ UNCHANGED <<retryVars, collectVars, pipeVars, scoreVars, signalVars, dqVars>>

(***************************************************************************)
(* DealQualificationAgent (agent.py:8-99)                                  *)
(***************************************************************************)
\* Data points as run and _calculate_assessment read them: run only moves
\* them, _calculate_assessment reads confidence_score (hundredths).
DqPoints ==
    {[tag |-> "a", confidence_score |-> 10],
     [tag |-> "b", confidence_score |-> 80]}

\* What awaiting a registered collector's collect_data delivers to gather:
\* a list, an Exception, asyncio.CancelledError, or a value that is no list.
DqBehaviours ==
    {[kind |-> "list", items |-> lst] : lst \in SeqsUpTo(DqPoints, MaxDqPoints)}
        \cup {[kind |-> k, items |-> <<>>] : k \in {"Exception", "CancelledError", "tuple"}}

\* DQDAConfig.SCORING_WEIGHTS (config.py:13-19), in hundredths.
SCORING_WEIGHTS ==
    [team |-> 30, market |-> 20, product |-> 20, tokenomics |-> 15, traction |-> 15]

\* `score_val = 7.5`, in tenths.
score_val == 75

\* `min(total_score, 10.0)`: the cap, in thousandths.
OverallCap == 10000

DqIdle ==
    /\ dq_pc = "idle"
    /\ dq_collectors = <<>>
    /\ dq_done = <<>>
    /\ dq_assessment = <<>>

\* DealQualificationAgent.__init__: self.collectors = []
DqInit ==
    /\ dq_pc = "register"
    /\ dq_collectors = <<>>
    /\ dq_done = <<>>
    /\ dq_assessment = <<>>

\* register_collector(collector)
register_collector(collector) ==
    /\ dq_pc = "register"
    /\ Len(dq_collectors) < MaxCollectors
    /\ dq_collectors' = Append(dq_collectors, collector)
    /\ UNCHANGED <<dq_pc, dq_done, dq_assessment>>
    /\ UNCHANGED <<retryVars, collectVars, pipeVars, scoreVars, signalVars, gatherVars>>

\* run, lines 26-52: one coroutine per collector in self.collectors, in
\* order, all handed to asyncio.gather.
DqRunStart ==
    /\ dq_pc = "register"
    /\ dq_pc' = "gather"
    /\ UNCHANGED <<dq_collectors, dq_done, dq_assessment>>
    /\ UNCHANGED <<retryVars, collectVars, pipeVars, scoreVars, signalVars, gatherVars>>

\* The task of the collector at position i ends.
DqTaskEnds(i) ==
    /\ dq_pc = "gather"
    /\ i \in 1..Len(dq_collectors)
    /\ \A k \in 1..Len(dq_done) : dq_done[k] # i
    /\ dq_done' = Append(dq_done, i)
    /\ UNCHANGED <<dq_pc, dq_collectors, dq_assessment>>
    /\ UNCHANGED <<retryVars, collectVars, pipeVars, scoreVars, signalVars, gatherVars>>

\* run, lines 54-59: lists are appended in the order of results_lists;
\* anything else adds nothing.
RECURSIVE all_data_points_reversed(_)
all_data_points_reversed(results_lists) ==
    IF results_lists = <<>> THEN <<>>
    ELSE LET result == results_lists[1]
         IN all_data_points_reversed(Tail(results_lists))
                \o (IF result.kind = "list" THEN result.items ELSE <<>>)
RECURSIVE all_data_points(_)
all_data_points(results_lists) ==
    IF results_lists = <<>> THEN <<>>
    ELSE LET result == results_lists[1]
         IN (IF result.kind = "list" THEN result.items ELSE <<>>)
                \o all_data_points(Tail(results_lists))

\* sum(score_val * weight for each category), in thousandths
RECURSIVE total_score(_)
total_score(cats) ==
    IF cats = {} THEN 0
    ELSE LET cat == CHOOSE c \in cats : TRUE
         IN score_val * SCORING_WEIGHTS[cat] + total_score(cats \ {cat})

\* _calculate_assessment (agent.py:67-99).  overall_score is in thousandths,
\* confidence_score a fraction of hundredths; assessment_timestamp is left out.
calculate_assessment(data_points) ==
    IF data_points = <<>>
    THEN [overall_score |-> 0,
          confidence_score |-> Frac(0, 1),
          data_points |-> <<>>,
          category_scores |-> <<>>,
          flags |-> <<>>]
    ELSE [overall_score |-> Min(total_score(DOMAIN SCORING_WEIGHTS), OverallCap),
          confidence_score |-> Frac(SumSeq([i \in 1..Len(data_points) |-> data_points[i].confidence_score]), Len(data_points)),
          data_points |-> data_points,
          category_scores |-> [cat \in DOMAIN SCORING_WEIGHTS |-> score_val],
          flags |-> <<"Scaffold Mode">>]

\* run, lines 52-65, once every task has ended.
DqRunFinish ==
    /\ dq_pc = "gather"
    /\ Len(dq_done) = Len(dq_collectors)
    /\ dq_assessment' = calculate_assessment(all_data_points(gather(dq_collectors, dq_done)))
    /\ dq_pc' = "done"
    /\ UNCHANGED <<dq_collectors, dq_done>>
    /\ UNCHANGED <<retryVars, collectVars, pipeVars, scoreVars, signalVars, gatherVars>>

InitRetry ==
    /\ RetryInit /\ CollectIdle /\ PipeIdle /\ ScoreIdle /\ SignalIdle
    /\ GatherIdle /\ DqIdle

NextRetry ==
    \/ RetryAttemptSucceeds
    \/ RetryAttemptFails
    \/ RetryWake
    \/ RetryExhausted

SpecRetry == InitRetry /\ [][NextRetry]_vars

InitCollect ==
    /\ CollectInit /\ RetryIdle /\ PipeIdle /\ ScoreIdle /\ SignalIdle
    /\ GatherIdle /\ DqIdle

NextCollect ==
    \/ CollectFetchReturns
    \/ CollectFetchRaises
    \/ CollectNormalize
    \/ CollectWake
    \/ CollectReturn

SpecCollect == InitCollect /\ [][NextCollect]_vars

InitScore ==
    /\ ScoreInit /\ RetryIdle /\ CollectIdle /\ PipeIdle /\ SignalIdle
    /\ GatherIdle /\ DqIdle

NextScore ==
    \/ ScoreIdentify
    \/ ScoreWeaknessesGiven
    \/ ScoreFit

SpecScore == InitScore /\ [][NextScore]_vars

Init ==
    /\ PipeInit /\ RetryIdle /\ CollectIdle /\ ScoreIdle /\ SignalIdle
    /\ GatherIdle /\ DqIdle

Next ==
    \/ PipelineStart
    \/ \E key \in KeySet : TaskReturns(key)
    \/ \E key \in KeySet : TaskRaises(key)
    \/ \E key \in KeySet : TaskCancelled(key)
    \/ PipelineJoin

Spec == Init /\ [][Next]_vars

InitSignal ==
    /\ SignalInit /\ RetryIdle /\ CollectIdle /\ PipeIdle /\ ScoreIdle
    /\ GatherIdle /\ DqIdle

NextSignal ==
    \/ SignalMarket
    \/ SignalCompetition

SpecSignal == InitSignal /\ [][NextSignal]_vars

\* The event loop runs run_full_pipeline whenever it can continue: it starts
\* the five tasks and resumes after gather once every task has ended.
\* Nothing makes a collector task end.
SpecLive ==
    /\ Init
    /\ [][Next]_vars
    /\ WF_vars(PipelineStart)
    /\ WF_vars(PipelineJoin)

\* Two runs on the same collector results: gather holds the five lists.
InitRerun ==
    /\ ppc = "gather"
    /\ task_state = AllKeys("returned")
    /\ task_value \in
            {[pitch_deck |-> pd, whitepaper |-> wp, website |-> ws,
              tokenomics |-> tk, founders |-> fd] :
                pd \in ListsOf("pitch_deck"), wp \in ListsOf("whitepaper"),
                ws \in ListsOf("website"), tk \in ListsOf("tokenomics"),
                fd \in ListsOf("founders")}
    /\ collected = AllKeys([kind |-> "unset", items |-> <<>>])
    /\ report = <<>>
    /\ pipeline_error = NoneVal
    /\ clock = 0
    /\ round_dirs = NoDirs
    /\ prev_report = <<>>
    /\ RetryIdle /\ CollectIdle /\ ScoreIdle /\ SignalIdle /\ GatherIdle /\ DqIdle

NextRerun ==
    \/ PipelineJoin
    \/ PipelineRunAgain

SpecRerun == InitRerun /\ [][NextRerun]_vars

InitGather ==
    /\ GatherInit /\ RetryIdle /\ CollectIdle /\ PipeIdle /\ ScoreIdle
    /\ SignalIdle /\ DqIdle

NextGather ==
    \/ GatherStart
    \/ \E key \in KeySet : GatherTaskReturns(key)
    \/ \E key \in KeySet : GatherTaskRaises(key)
    \/ GatherJoin

SpecGather == InitGather /\ [][NextGather]_vars

InitDq ==
    /\ DqInit /\ RetryIdle /\ CollectIdle /\ PipeIdle /\ ScoreIdle
    /\ SignalIdle /\ GatherIdle

NextDq ==
    \/ \E collector \in DqBehaviours : register_collector(collector)
    \/ DqRunStart
    \/ \E i \in 1..MaxCollectors : DqTaskEnds(i)
    \/ DqRunFinish

SpecDq == InitDq /\ [][NextDq]_vars

(***************************************************************************)
(* Properties.                                                             *)
(***************************************************************************)
RECURSIVE NormalizeAll(_, _)
\* The data points of the items of a fetched list that normalize, in order.
NormalizeAll(items, kind) ==
    IF items = <<>> THEN <<>>
    ELSE LET n == normalize_data(items[1], kind)
         IN (IF n = None THEN <<>> ELSE <<n[1]>>) \o NormalizeAll(Tail(items), kind)

\* Number of positions of sq holding an element of set.
CountIn(sq, set) == Cardinality({i \in 1..Len(sq) : sq[i] \in set})

NoDataWeaknesses ==
    {"No pitch deck data collected", "No whitepaper data collected",
     "No website crawl data collected", "No tokenomics data collected",
     "No founder background data collected"}

\* C1: when _collect_raw_data raises on every call, collect_data returns
\* exactly one record, with confidence 0.1 and an errors list holding the
\* failure message, and no exception leaves collect_data.
C1_PermanentFailureDegrades ==
    (fetch_permanent /\ cpc = "done") =>
        /\ propagated = NoneVal
        /\ Len(collect_result) = 1
        /\ collect_result[1].confidence_score = 10
        /\ fetch_errors # <<>>
        /\ collect_result[1].errors = <<fetch_errors[Len(fetch_errors)]>>

C1_Witness ==
    /\ fetch_permanent
    /\ cpc = "done"
    /\ max_results = 0
    /\ Len(collect_result) = 1
    /\ collect_result[1].errors = <<"timeout">>

\* C2: when _collect_raw_data raises on its first k calls (1 <= k <
\* max_retries) and succeeds afterwards, collect_data returns the normalized
\* records of the successful fetch, truncated to max_results, none of them
\* carrying an error.
C2_TransientFailureRetried ==
    (/\ cpc = "done"
     /\ ~fetch_permanent
     /\ Len(fetch_errors) + fetch_failures \in 1..(max_retries - 1)) =>
        /\ collect_result = Take(NormalizeAll(fetch_payload, source_kind), max_results)
        /\ \A i \in 1..Len(collect_result) : collect_result[i].errors = <<>>

\* C3: _retry_with_backoff never awaits func more than max_retries times,
\* has awaited it exactly max_retries times when every attempt raised, and
\* awaits it no more once an attempt has succeeded.
C3_RetryCount ==
    /\ [](/\ calls <= max_retries
          /\ (rpc = "done" /\ retry_result = NoneVal) => calls = max_retries)
    /\ [][retry_result # NoneVal => calls' = calls]_vars

C3_Witness ==
    /\ rpc = "done"
    /\ retry_result = NoneVal
    /\ max_retries = DefaultMaxRetries
    /\ calls = DefaultMaxRetries

\* C4 as stated: with max_retries = 3 and base_delay = 1 a permanently
\* failing func is followed by three waits, of 1, 2 and 4 time units.
C4_ThreeWaits ==
    (/\ rpc = "done"
     /\ retry_result = NoneVal
     /\ max_retries = DefaultMaxRetries
     /\ base_delay = DefaultBaseDelay) => waits = <<1, 2, 4>>

\* C4 amended: a permanently failing func is followed by max_retries - 1
\* waits, base_delay * 2^k for k = 0 .. max_retries - 2, none after the last
\* attempt: two waits of 1 and 2 time units with the defaults.
C4_BackoffWaits ==
    (rpc = "done" /\ retry_result = NoneVal) =>
        /\ waits = [k \in 1..(max_retries - 1) |-> base_delay * Pow2(k - 1)]
        /\ (max_retries = DefaultMaxRetries /\ base_delay = DefaultBaseDelay)
                => waits = <<1, 2>>

C4_Witness ==
    /\ rpc = "done"
    /\ retry_result = NoneVal
    /\ max_retries = DefaultMaxRetries
    /\ base_delay = DefaultBaseDelay
    /\ waits = <<1, 2>>

\* C5: after the fan-in the result map has exactly the five registered
\* keys; the entry of a collector that raised an Exception is the empty
\* list, and the entry of every collector that returned is the list it
\* returned, whatever the other collectors did.
C5_FailureIsolated ==
    (ppc \in {"done", "failed"}) =>
        /\ DOMAIN collected = KeySet
        /\ Cardinality(DOMAIN collected) = 5
        /\ \A k \in KeySet :
            /\ task_state[k] = "raised" =>
                    collected[k] = [kind |-> "list", items |-> <<>>]
            /\ task_state[k] = "returned" =>
                    collected[k] = [kind |-> "list", items |-> task_value[k]]
        /\ ppc = "done" =>
            \A k \in KeySet :
                task_state[k] = "returned" => report.data_points[k] = task_value[k]

C5_Witness ==
    /\ ppc = "done"
    /\ task_state["website"] = "raised"
    /\ collected["website"].items = <<>>
    /\ \A k \in KeySet \ {"website"} :
        /\ task_state[k] = "returned"
        /\ task_value[k] # <<>>
        /\ report.data_points[k] = task_value[k]

\* C6: every record collect_data holds or returns, normalized or degraded,
\* has a confidence within [0.0, 1.0].
C6_ConfidenceInRange ==
    /\ \A i \in 1..Len(normalized_data) :
        normalized_data[i].confidence_score \in 0..100
    /\ \A i \in 1..Len(collect_result) :
        collect_result[i].confidence_score \in 0..100

C6_Witness ==
    /\ cpc = "done"
    /\ Len(collect_result) = 2
    /\ collect_result[1].confidence_score = 100
    /\ collect_result[2].confidence_score = 50

\* C7: the composite score is an integer in 0..100 and a nearest integer to
\* 100 * clamp01(founder/100*0.35 + market/100*0.30 + competition/100*0.15
\* + token/100*0.20 - min(count*0.02, 0.20)).
C7_CompositeFormula ==
    (sc_pc = "done") =>
        LET count == Len(sc_weaknesses)
            raw == 35 * sc_in.founder + 30 * sc_in.market
                   + 15 * sc_in.competition + 20 * sc_in.token
                   - 100 * (IF 2 * count < 20 THEN 2 * count ELSE 20)
            x == IF raw < 0 THEN 0 ELSE IF raw > 10000 THEN 10000 ELSE raw
        IN /\ sc_fit.score \in 0..100
           /\ 100 * sc_fit.score - x \in (-50)..50

C7_Witness ==
    /\ sc_pc = "done"
    /\ Len(sc_weaknesses) = 11
    /\ sc_in = [founder |-> 100, market |-> 100, competition |-> 100, token |-> 100]
    /\ sc_fit.score = 80

\* C8: the rating is a total function of the composite score: at least 75
\* strong, 55 to 74 moderate, below 55 weak; so 75, 74, 55, 54 give strong,
\* moderate, moderate, weak.
C8_RatingTiers ==
    (sc_pc = "done") =>
        /\ sc_fit.rating \in {"strong", "moderate", "weak"}
        /\ sc_fit.rating = "strong" <=> sc_fit.score >= 75
        /\ sc_fit.rating = "moderate" <=> (sc_fit.score >= 55 /\ sc_fit.score < 75)
        /\ sc_fit.rating = "weak" <=> sc_fit.score < 55
        /\ sc_fit.score = 75 => sc_fit.rating = "strong"
        /\ sc_fit.score = 74 => sc_fit.rating = "moderate"
        /\ sc_fit.score = 55 => sc_fit.rating = "moderate"
        /\ sc_fit.score = 54 => sc_fit.rating = "weak"

C8_Witness ==
    /\ sc_pc = "done"
    /\ sc_weaknesses = <<>>
    /\ sc_fit = [score |-> 55, rating |-> "moderate"]

\* C9: _identify_weaknesses emits the low-score weakness of a sub-score
\* exactly once when the sub-score is below 40 and not at all otherwise: 39
\* emits it, 40 does not.
C9_LowScoreThreshold ==
    (sc_pc = "identified") =>
        LET Emitted(w) == CountIn(sc_weaknesses, {w})
            Rule(score, w) ==
                /\ Emitted(w) = (IF score < 40 THEN 1 ELSE 0)
                /\ score = 40 => Emitted(w) = 0
                /\ score = 39 => Emitted(w) = 1
        IN /\ Rule(sc_in.founder, "Low founder/team signal score")
           /\ Rule(sc_in.market,
                "Weak market evidence (limited market sizing / positioning signals)")
           /\ Rule(sc_in.competition, "Limited competitive differentiation evidence")
           /\ Rule(sc_in.token, "Token utility/quality signal is weak or missing")

C9_Witness ==
    /\ sc_pc = "identified"
    /\ sc_in.founder = 40
    /\ sc_in.market = 39
    /\ sc_in.competition = 40
    /\ sc_in.token = 39
    /\ sc_empty = {}
    /\ sc_weaknesses =
        <<"Weak market evidence (limited market sizing / positioning signals)",
          "Token utility/quality signal is weak or missing">>

\* C10: when every one of the five lists is empty the report has founder
\* score 0, token score 0 with the 'No tokenomics data available' signal,
\* exactly five 'no data collected' weaknesses, composite score 0 and
\* rating weak.
C10_EmptyInput ==
    (ppc = "done" /\ \A k \in KeySet : collected[k].items = <<>>) =>
        /\ report.founder_score = 0
        /\ report.token_utility.score = 0
        /\ report.token_utility.signals = <<"No tokenomics data available">>
        /\ CountIn(report.weaknesses, NoDataWeaknesses) = 5
        /\ NoDataWeaknesses \subseteq {report.weaknesses[i] : i \in 1..Len(report.weaknesses)}
        /\ report.investor_fit.score = 0
        /\ report.investor_fit.rating = "weak"

C10_Witness ==
    /\ ppc = "done"
    /\ \A k \in KeySet : task_state[k] = "returned" /\ task_value[k] = <<>>
    /\ Len(report.weaknesses) = 9
    /\ report.investor_fit = [score |-> 0, rating |-> "weak"]

\* C11 as stated: a run in which every one of the five lists is empty
\* (the collector returned no record or raised) produces a report whose
\* founder, market, competition, token and composite scores are all 0, with
\* the five 'no data collected' weaknesses and rating weak.
C11_AllScoresZero ==
    (ppc = "done" /\ \A k \in KeySet : collected[k].items = <<>>) =>
        /\ report.founder_score = 0
        /\ report.market_analysis.score = 0
        /\ report.competition.score = 0
        /\ report.token_utility.score = 0
        /\ report.investor_fit.score = 0
        /\ NoDataWeaknesses \subseteq {report.weaknesses[i] : i \in 1..Len(report.weaknesses)}
        /\ report.investor_fit.rating = "weak"

\* C11 amended: such a run produces a report with founder score 0, token
\* score 0 and composite score 0, market score 15 and competition score 30
\* (the baselines of the two heuristics), no market or competition signal,
\* the five 'no data collected' weaknesses and rating weak.
C11_EmptyRunBaselines ==
    (ppc = "done" /\ \A k \in KeySet : collected[k].items = <<>>) =>
        /\ report.founder_score = 0
        /\ report.market_analysis = [score |-> 15, signals |-> <<>>]
        /\ report.competition = [score |-> 30, signals |-> <<>>]
        /\ report.token_utility.score = 0
        /\ report.investor_fit.score = 0
        /\ NoDataWeaknesses \subseteq {report.weaknesses[i] : i \in 1..Len(report.weaknesses)}
        /\ report.investor_fit.rating = "weak"

C11_Witness ==
    /\ ppc = "done"
    /\ task_state["pitch_deck"] = "raised"
    /\ task_state["founders"] = "raised"
    /\ \A k \in KeySet : collected[k].items = <<>>
    /\ report.market_analysis.score = 15
    /\ report.competition.score = 30
    /\ report.investor_fit = [score |-> 0, rating |-> "weak"]

\* C12: when run_full_pipeline runs twice on the same five collector result
\* lists, the two reports are identical in every field.
C12_RunsIdentical ==
    (ppc = "done" /\ prev_report # <<>>) => report = prev_report

\* The end-to-end scenario (test_dqda_agent.py:42-113): one record per
\* collector.  The whitepaper's writing-quality composite 0.7 is held under
\* the keys the scorer reads (read = TRUE) or, as in the test's own record,
\* under 'overall_quality', which it does not read.
ScenarioLists(read) ==
    [pitch_deck |->
        <<DataPoint("pitch_deck", 85, <<>>,
            [EmptyStructuredData EXCEPT !.market_size = TRUE,
                !.competitive_advantage = TRUE, !.section_coverage = Some(80)])>>,
     whitepaper |->
        <<DataPoint("whitepaper", 80, <<>>,
            [EmptyStructuredData EXCEPT
                !.writing_quality = IF read THEN <<70>> ELSE <<>>])>>,
     website |->
        <<DataPoint("website", 75, <<>>,
            [EmptyStructuredData EXCEPT !.company_information = Some(<<3, 3>>),
                !.crawled_pages = Some(1)])>>,
     tokenomics |->
        <<DataPoint("tokenomics", 90, <<>>,
            [EmptyStructuredData EXCEPT !.quality_score = Some(90)])>>,
     founders |->
        <<DataPoint("founder_profile", 80, <<>>,
            [EmptyStructuredData EXCEPT !.overall_score = Some(76)])>>]

InScenario(read) ==
    /\ ppc = "done"
    /\ \A k \in KeySet :
        task_state[k] = "returned" /\ task_value[k] = ScenarioLists(read)[k]

\* C13 as stated: in the end-to-end scenario the report has founder score
\* 76, market score 87 and token score 90.
C13_ScenarioMarket87 ==
    InScenario(TRUE) =>
        /\ report.founder_score = 76
        /\ report.market_analysis.score = 87
        /\ report.token_utility.score = 90

\* C13 amended: in the end-to-end scenario the report has founder score 76,
\* token score 90 and market score 92 = (0.45 + 0.8*0.25 + 1.0*0.2 +
\* 0.7*0.1) * 100; with the whitepaper composite under a key the scorer
\* does not read, the whitepaper term is 0 and the market score is 85.
C13_ScenarioScores ==
    /\ InScenario(TRUE) =>
        /\ report.founder_score = 76
        /\ report.market_analysis.score = 92
        /\ report.token_utility.score = 90
    /\ InScenario(FALSE) =>
        /\ report.founder_score = 76
        /\ report.market_analysis.score = 85
        /\ report.token_utility.score = 90

C13_Witness ==
    /\ InScenario(TRUE)
    /\ report.founder_score = 76
    /\ report.market_analysis.score = 92
    /\ Len(report.market_analysis.signals) = 4
    /\ report.token_utility.score = 90

\* The 'no data collected' weakness of a collector role.
NoDataWeaknessOf(key) ==
    CASE key = "pitch_deck" -> "No pitch deck data collected"
      [] key = "whitepaper" -> "No whitepaper data collected"
      [] key = "website" -> "No website crawl data collected"
      [] key = "tokenomics" -> "No tokenomics data collected"
      [] key = "founders" -> "No founder background data collected"

\* C14: for each of the five roles the report's weaknesses hold that role's
\* 'no data collected' entry, once, if and only if the role's list has no
\* record, whether or not a sub-score is below 40.
C14_NoDataWeaknessIffEmpty ==
    (ppc = "done") =>
        \A k \in KeySet :
            CountIn(report.weaknesses, {NoDataWeaknessOf(k)})
                = (IF Len(collected[k].items) = 0 THEN 1 ELSE 0)

C14_Witness ==
    /\ ppc = "done"
    /\ collected["whitepaper"].items = <<>>
    /\ report.founder_score >= 40
    /\ report.market_analysis.score >= 40
    /\ report.competition.score >= 40
    /\ report.token_utility.score >= 40
    /\ report.weaknesses = <<"No whitepaper data collected">>

\* Whether no record of the list carries any of the sub-structures the
\* scoring functions read (each is missing or has the wrong shape).
NoSignal(points) ==
    \A i \in 1..Len(points) : points[i].structured_data = EmptyStructuredData

\* C15: the scoring functions never raise.  Whatever the five tasks
\* delivered to the result map, no exception leaves the run and a report is
\* produced; records whose sub-structures are missing or malformed
\* contribute the baseline: market 15 and competition 30 when no pitch-deck,
\* whitepaper or website record carries a readable signal, and the record's
\* confidence in place of a missing founder or token score.
C15_ScoringNeverRaises ==
    (ppc \in {"done", "failed"}) =>
        /\ pipeline_error = NoneVal
        /\ ppc = "done"
        /\ report # <<>>
        /\ (/\ NoSignal(report.data_points["pitch_deck"])
            /\ NoSignal(report.data_points["whitepaper"])
            /\ NoSignal(report.data_points["website"])) =>
                /\ report.market_analysis.score = 15
                /\ report.competition.score = 30
        /\ \A k \in {"founders", "tokenomics"} :
            (NoSignal(report.data_points[k]) /\ Len(report.data_points[k]) = 1) =>
                (IF k = "founders" THEN report.founder_score
                                   ELSE report.token_utility.score)
                    = report.data_points[k][1].confidence_score

\* C16 as stated: whatever max_results >= 0 and whatever the raw fetch does,
\* the list collect_data returns has at most max_results records.
C16_AtMostMaxResults ==
    (cpc = "done") => Len(collect_result) <= max_results

\* C16 amended: when the raw fetch succeeds the returned list has at most
\* max_results records, the first ones that normalized, in order; when it
\* fails the list is the single degraded record whatever max_results is, so
\* that the list never has more than max(max_results, 1) records.
C16_ResultBound ==
    (cpc = "done") =>
        /\ fetch_errors = <<>> =>
            /\ Len(collect_result) <= max_results
            /\ Len(collect_result) <= Len(normalized_data)
            /\ Len(collect_result) \in {max_results, Len(normalized_data)}
            /\ \A i \in 1..Len(collect_result) :
                collect_result[i] = normalized_data[i]
        /\ fetch_errors # <<>> => Len(collect_result) = 1
        /\ Len(collect_result) <= Max(max_results, 1)

C16_Witness ==
    /\ cpc = "done"
    /\ fetch_errors = <<>>
    /\ max_results = 1
    /\ Len(normalized_data) = 2
    /\ collect_result = <<normalized_data[1]>>

\* C17: once each of the five collector tasks has returned or raised,
\* run_full_pipeline ends by returning a report: no combination of
\* collector outcomes ends the run with an exception instead.
C17_AlwaysReport ==
    (/\ \A k \in KeySet : task_state[k] \in {"returned", "raised", "cancelled"}
     /\ ppc # "gather") =>
        /\ ppc = "done"
        /\ report.investor_fit.rating \in {"strong", "moderate", "weak"}
        /\ DOMAIN report.data_points = KeySet

\* C18: a collector task that never completes does not hang the
\* orchestrator: a run waiting in gather always leaves it (an overall
\* timeout fires) and ends.
C18_NoHang == (ppc = "gather") ~> (ppc \in {"done", "failed"})

\* C19: every record collect_data holds or returns, normalized or degraded,
\* carries as source_type the one source kind the collector instance
\* declares through _get_source_type, which is a DataSource member.
C19_SourceKindStamped ==
    /\ source_kind \in DataSource
    /\ \A i \in 1..Len(normalized_data) :
        normalized_data[i].source_type = source_kind
    /\ \A i \in 1..Len(collect_result) :
        collect_result[i].source_type = source_kind

C19_Witness ==
    /\ cpc = "done"
    /\ source_kind = "founder_profile"
    /\ fetch_errors # <<>>
    /\ Len(collect_result) = 1
    /\ collect_result[1].degraded_note
    /\ collect_result[1].source_type = "founder_profile"

\* The four presence tests of the confidence score on a raw item: content
\* or text, a source URL (url or source_url), metadata, title.
PresenceOf(raw) ==
    <<raw.content \/ raw.text, raw.url \/ raw.source_url, raw.metadata, raw.title>>

\* C20: the confidence of a normalized record is 0.5, plus 0.2 if its raw
\* item has content or text, plus 0.1 if it has a source URL, plus 0.1 if it
\* has metadata, plus 0.1 if it has a title, and at most 1.0; two raw items
\* with the same fields present get the same confidence, and a raw item
\* with none of them gets exactly 0.5.
C20_ConfidenceFormula ==
    LET RawOf(dp) == raw_data[dp.structured_data.id]
        Sum(raw) == 50 + (IF PresenceOf(raw)[1] THEN 20 ELSE 0)
                       + (IF PresenceOf(raw)[2] THEN 10 ELSE 0)
                       + (IF PresenceOf(raw)[3] THEN 10 ELSE 0)
                       + (IF PresenceOf(raw)[4] THEN 10 ELSE 0)
    IN \A i \in 1..Len(normalized_data) :
        /\ normalized_data[i].confidence_score
                = (IF Sum(RawOf(normalized_data[i])) > 100
                   THEN 100 ELSE Sum(RawOf(normalized_data[i])))
        /\ PresenceOf(RawOf(normalized_data[i])) = <<FALSE, FALSE, FALSE, FALSE>>
                => normalized_data[i].confidence_score = 50
        /\ \A j \in 1..Len(normalized_data) :
            PresenceOf(RawOf(normalized_data[i])) = PresenceOf(RawOf(normalized_data[j]))
                => normalized_data[i].confidence_score
                        = normalized_data[j].confidence_score

C20_Witness ==
    /\ cpc = "done"
    /\ Len(raw_data) = 2
    /\ PresenceOf(raw_data[1]) = <<FALSE, FALSE, TRUE, FALSE>>
    /\ PresenceOf(raw_data[2]) = <<TRUE, TRUE, FALSE, FALSE>>
    /\ Len(normalized_data) = 2
    /\ normalized_data[1].confidence_score = 60
    /\ normalized_data[2].confidence_score = 80

\* The greatest of a non-empty set of ratios <<numerator, denominator>>.
MaxRatio(ratios) ==
    CHOOSE r \in ratios : \A r2 \in ratios : r2[1] * r[2] <= r[1] * r2[2]

\* C21: the market-analysis score is a nearest integer to
\* 100 * clamp01(b + min(c,1)*0.25 + min(w,1)*0.2 + min(q,1)*0.1), where b
\* is 0.45 if some pitch-deck record has a market-sizing section and 0.15
\* otherwise, c the greatest section coverage of a pitch-deck record, w the
\* greatest company-information completeness of a website record and q the
\* greatest writing-quality composite of a whitepaper record, each 0 when
\* no record supplies it (metrics are not negative).
C21_MarketFormula ==
    (sg_market # <<>>) =>
        LET b == IF \E i \in 1..Len(sg_pitch) :
                        sg_pitch[i].structured_data.market_size
                 THEN 45 ELSE 15
            Cov == {0} \cup
                   {sg_pitch[i].structured_data.section_coverage[1] :
                        i \in {j \in 1..Len(sg_pitch) :
                            sg_pitch[j].structured_data.section_coverage # None}}
            c0 == CHOOSE x \in Cov : \A y \in Cov : y <= x
            c == IF c0 > 100 THEN 100 ELSE c0
            Infos == {sg_web[i].structured_data.company_information[1] :
                        i \in {j \in 1..Len(sg_web) :
                            sg_web[j].structured_data.company_information # None}}
            w0 == MaxRatio({<<0, 1>>} \cup
                           {<<ci[1], IF ci[2] = 0 THEN 1 ELSE ci[2]>> : ci \in Infos})
            w == IF w0[1] > w0[2] THEN <<1, 1>> ELSE w0
            Parts == {sg_wp[i].structured_data.writing_quality :
                        i \in 1..Len(sg_wp)} \ {<<>>}
            q0 == MaxRatio({<<0, 1>>} \cup {<<SumSeq(pt), Len(pt)>> : pt \in Parts})
            q == IF q0[1] > 100 * q0[2] THEN <<100, 1>> ELSE q0
            \* 100 * (b + c/4 + 20w + q/10) / 100 as n / d
            d == 20 * w[2] * q[2]
            n0 == d * b + 5 * w[2] * q[2] * c + 400 * w[1] * q[2] + 2 * w[2] * q[1]
            n == IF n0 < 0 THEN 0 ELSE IF n0 > 100 * d THEN 100 * d ELSE n0
        IN /\ sg_market.score \in 0..100
           /\ 2 * (sg_market.score * d - n) \in (-d)..d

C21_Witness ==
    /\ Len(sg_pitch) = 2
    /\ sg_pitch[1].structured_data.section_coverage = Some(80)
    /\ sg_pitch[1].structured_data.market_size
    /\ sg_pitch[2].structured_data.section_coverage = Some(30)
    /\ Len(sg_web) = 2
    /\ sg_web[1].structured_data.company_information = Some(<<1, 3>>)
    /\ sg_web[2].structured_data.company_information = Some(<<3, 3>>)
    /\ Len(sg_wp) = 1
    /\ sg_wp[1].structured_data.writing_quality = <<130>>
    /\ sg_market # <<>>
    /\ sg_market.score = 95
    /\ Len(sg_market.signals) = 4

\* C22: the competition score is round(100 * clamp01(b + min(pages/10, 1)
\* * 0.4)), where b is 0.6 if some pitch-deck record has a
\* competitive-advantage section and 0.3 otherwise and pages is the largest
\* number of crawled pages of a website record (0 without one); from 10
\* pages on the page term stays at 0.4.
C22_CompetitionFormula ==
    (sg_comp # <<>>) =>
        LET b == IF \E i \in 1..Len(sg_pitch) :
                        sg_pitch[i].structured_data.competitive_advantage
                 THEN 60 ELSE 30
            Pages == {0} \cup
                     {sg_web[i].structured_data.crawled_pages[1] :
                        i \in {j \in 1..Len(sg_web) :
                            sg_web[j].structured_data.crawled_pages # None}}
            pages == CHOOSE x \in Pages : \A y \in Pages : y <= x
        IN /\ sg_comp.score = b + 4 * (IF pages < 10 THEN pages ELSE 10)
           /\ sg_comp.score \in 0..100
           /\ pages >= 10 => sg_comp.score = b + 40

C22_Witness ==
    /\ Len(sg_pitch) = 1
    /\ sg_pitch[1].structured_data.competitive_advantage
    /\ Len(sg_web) = 2
    /\ sg_web[1].structured_data.crawled_pages = Some(12)
    /\ sg_web[2].structured_data.crawled_pages = Some(1)
    /\ sg_comp # <<>>
    /\ sg_comp.score = 100
    /\ Len(sg_comp.signals) = 2

\* The positions normalized so far, in the order they were normalized.
NormalizedOrder ==
    LET norm == SelectSeq(events, LAMBDA e : e[1] = "normalize")
    IN [k \in 1..Len(norm) |-> norm[k][2]]

\* C23: when the raw fetch succeeds, collect_data normalizes the raw items
\* one at a time in the order fetched, every one of them before it
\* truncates, and returns exactly the first max_results of the items that
\* normalized, in fetch order, none twice.
C23_FetchOrderKept ==
    /\ \A k \in 1..Len(NormalizedOrder) : NormalizedOrder[k] = k
    /\ (cpc = "done" /\ fetch_errors = <<>>) =>
        LET ok == {i \in 1..Len(fetch_payload) : fetch_payload[i].shape = "dict"}
            Rank(i) == Cardinality({j \in ok : j <= i})
        IN /\ NormalizedOrder = [k \in 1..Len(fetch_payload) |-> k]
           /\ Len(collect_result) = Min(max_results, Cardinality(ok))
           /\ \A k \in 1..Len(collect_result) :
                LET i == collect_result[k].structured_data.id
                IN /\ i \in ok
                   /\ Rank(i) = k
                   /\ collect_result[k].structured_data.title = fetch_payload[i].title

C23_Witness ==
    /\ cpc = "done"
    /\ fetch_errors = <<>>
    /\ max_results = 1
    /\ Len(fetch_payload) = 2
    /\ fetch_payload[1].title
    /\ ~fetch_payload[2].title
    /\ NormalizedOrder = <<1, 2>>
    /\ Len(collect_result) = 1
    /\ collect_result[1].structured_data.id = 1

\* C24: between the normalization of any two consecutive raw items
\* collect_data performs exactly one rate-limit wait, whether or not the
\* earlier item normalized.
C24_OneWaitBetweenItems ==
    \A k \in 1..Len(events) :
        (/\ events[k][1] = "normalize"
         /\ \E m \in (k + 1)..Len(events) : events[m][1] = "normalize") =>
            /\ events[k + 1][1] = "sleep"
            /\ events[k + 2][1] = "normalize"

\* C25: a collector constructed with an explicit rate_limit_delay d, d = 0
\* included, waits exactly d after an item.
C25_ExplicitDelayUsed ==
    ctor_arg # None =>
        \A k \in 1..Len(events) : events[k][1] = "sleep" => events[k][2] = ctor_arg[1]

\* C26: no collector task ends before all five are started, scoring starts
\* only after every task has returned or raised, and the result map gives
\* each key its own collector's list (empty for one that raised) whatever
\* the order in which the tasks ended.
C26_FanOutFanIn ==
    /\ (\E k \in KeySet : ga_state[k] \in {"returned", "raised"}) =>
            \A j \in KeySet : ga_state[j] # "created"
    /\ ga_pc = "scoring" =>
            /\ \A k \in KeySet : ga_state[k] \in {"returned", "raised"}
            /\ \A k \in KeySet :
                    /\ ga_collected[k].kind = "list"
                    /\ ga_collected[k].items =
                            IF ga_state[k] = "returned" THEN ga_value[k] ELSE <<>>
                    /\ \A n \in 1..Len(ga_collected[k].items) :
                            ga_collected[k].items[n].collector = k
C26_Witness ==
    /\ ga_pc = "scoring"
    /\ ga_done = <<5, 3, 1, 2, 4>>
    /\ ga_state["pitch_deck"] = "raised"
    /\ ga_collected["pitch_deck"].items = <<>>
    /\ ga_collected["founders"].items = <<[collector |-> "founders"]>>
    /\ ga_collected["website"].items = <<>>
    /\ ga_state["website"] = "returned"

\* C27: DealQualificationAgent.run returns an assessment whose data_points
\* are the lists of the collectors that returned one, concatenated in
\* registration order; a collector that raised adds nothing and the
\* assessment is still returned; with no data point the overall score and
\* the confidence are 0.
C27_RunAssessment ==
    dq_pc = "done" =>
        LET n == Len(dq_collectors)
            size == [i \in 1..n |-> IF dq_collectors[i].kind = "list" THEN Len(dq_collectors[i].items) ELSE 0]
            Offset(i) == SumSeq(SubSeq(size, 1, i - 1))
            points == dq_assessment.data_points
        IN /\ dq_assessment # <<>>
           /\ Len(points) = SumSeq(size)
           /\ \A i \in 1..n : \A k \in 1..size[i] :
                    points[Offset(i) + k] = dq_collectors[i].items[k]
           /\ points = <<>> =>
                    /\ dq_assessment.overall_score = 0
                    /\ dq_assessment.confidence_score.num = 0
C27_Witness ==
    /\ dq_pc = "done"
    /\ Len(dq_collectors) = 3
    /\ dq_collectors[1].kind = "list" /\ Len(dq_collectors[1].items) = 1
    /\ dq_collectors[1].items[1].tag = "b"
    /\ dq_collectors[2].kind = "Exception"
    /\ dq_collectors[3].kind = "list" /\ Len(dq_collectors[3].items) = 1
    /\ dq_collectors[3].items[1].tag = "a"
    /\ dq_done = <<3, 2, 1>>
    /\ Len(dq_assessment.data_points) = 2
    /\ dq_assessment.data_points[1].tag = "b"
    /\ dq_assessment.data_points[2].tag = "a"

\* Whether a collector's list is the record of _graceful_degradation alone.
DegradedOnly(points) ==
    /\ Len(points) = 1
    /\ points[1].errors # <<>>
    /\ points[1].confidence_score = 10

\* C28: a list that holds only a degraded record (errors, confidence 0.1)
\* is scored like collected data: the report has no 'no data collected'
\* weakness for its role, and a founders or tokenomics list of that kind
\* gives the sub-score 10.
C28_DegradedScoredAsData ==
    ppc = "done" =>
        \A k \in KeySet : DegradedOnly(collected[k].items) =>
            /\ CountIn(report.weaknesses, {NoDataWeaknessOf(k)}) = 0
            /\ k = "founders" => report.founder_score = 10
            /\ k = "tokenomics" => report.token_utility.score = 10
C28_Witness ==
    /\ ppc = "done"
    /\ DegradedOnly(collected["founders"].items)
    /\ DegradedOnly(collected["tokenomics"].items)
    /\ collected["website"].items = <<>>
    /\ report.founder_score = 10
    /\ report.token_utility.score = 10
    /\ CountIn(report.weaknesses, {"No founder background data collected", "No tokenomics data collected"}) = 0
    /\ CountIn(report.weaknesses, {"No website crawl data collected"}) = 1

\* C29: when the fetch succeeded and an item fails to normalize, that item
\* is not in the output, every later item is still normalized, the items
\* that do normalize are returned (up to max_results), and the output holds
\* no degraded record.
C29_FailedItemSkipped ==
    (cpc = "done" /\ fetch_errors = <<>>) =>
        LET n == Len(fetch_payload)
            bad == {i \in 1..n : fetch_payload[i].shape # "dict"}
            Outcome(j) == IF j \in bad THEN 0 ELSE 1
            ids == {collect_result[k].structured_data.id : k \in 1..Len(collect_result)}
        IN bad # {} =>
            /\ propagated = NoneVal
            /\ ids \cap bad = {}
            /\ \A k \in 1..Len(collect_result) :
                    collect_result[k].errors = <<>> /\ ~collect_result[k].degraded_note
            /\ \A i \in bad : \A j \in (i + 1)..n :
                    /\ \E e \in 1..Len(events) : events[e] = <<"normalize", j, Outcome(j)>>
                    /\ (j \notin bad /\ Cardinality({m \in 1..j : m \notin bad}) <= max_results)
                            => j \in ids
C29_Witness ==
    /\ cpc = "done"
    /\ fetch_errors = <<>>
    /\ Len(fetch_payload) = 2
    /\ fetch_payload[1].shape # "dict"
    /\ fetch_payload[2].shape = "dict"
    /\ max_results = 2
    /\ Len(collect_result) = 1
    /\ collect_result[1].structured_data.id = 2
    /\ collect_result[1].errors = <<>>

\* C30: with the set of empty collector lists fixed, raising one of the four
\* sub-scores and leaving the other three alone never lowers the composite
\* score that _identify_weaknesses followed by _compute_investor_fit gives.
C30_CompositeMonotone ==
    (/\ sc_pc = "done"
     /\ sc_weaknesses = identify_weaknesses(sc_in.founder, sc_in.market,
                            sc_in.competition, sc_in.token, sc_empty)) =>
        \A field \in DOMAIN sc_in : \A higher \in ScoreGrid :
            higher > sc_in[field] =>
                LET raised == [sc_in EXCEPT ![field] = higher]
                    weaknesses == identify_weaknesses(raised.founder, raised.market,
                                        raised.competition, raised.token, sc_empty)
                    points == investor_fit_points(raised.founder, raised.market,
                                        raised.competition, raised.token, Len(weaknesses))
                IN \A up \in Booleans : (up => IsHalf(points)) =>
                        compute_investor_fit(raised.founder, raised.market,
                            raised.competition, raised.token, weaknesses, up).score
                                >= sc_fit.score
C30_Witness ==
    /\ sc_pc = "done"
    /\ sc_in = [founder |-> 39, market |-> 40, competition |-> 40, token |-> 40]
    /\ sc_empty = {"whitepaper"}
    /\ Len(sc_weaknesses) = 2
    /\ sc_fit.score = 36
    /\ compute_investor_fit(40, 40, 40, 40, identify_weaknesses(40, 40, 40, 40, sc_empty), FALSE).score = 38

====
